---- MODULE Spec2Model ----
(***************************************************************************)
(* Model of the mapping-ingestion engine, IntelligentMappingAnalyzer       *)
(* (src/services/intelligentMappingAnalyzer.ts): format detection, the     *)
(* transcript (markdown) line rules, the CSV parser, the table graph       *)
(* builder, the lineage index and the summary.                             *)
(*                                                                         *)
(* Text is modelled as TLA+ strings and every regular expression of the    *)
(* source is computed character by character on them.                      *)
(***************************************************************************)
EXTENDS Integers, Sequences, FiniteSets, TLC

(***************************************************************************)
(* Bound of the model: the number of lines of an input.                    *)
(***************************************************************************)
MaxLines == 3

(***************************************************************************)
(* Strings: the JavaScript string operations the analyzer uses.            *)
(***************************************************************************)
UpperLetters == "ABCDEFGHIJKLMNOPQRSTUVWXYZ"

LowerLetters == "abcdefghijklmnopqrstuvwxyz"

Digits == "0123456789"

\* s[i], or "" outside the string (JavaScript gives undefined there)
At(s, i) == IF 1 <= i /\ i <= Len(s) THEN SubSeq(s, i, i) ELSE ""

CharsOf(s) == { At(s, i) : i \in 1..Len(s) }

\* \w and [A-Za-z0-9_]
WordChars == CharsOf(UpperLetters) \cup CharsOf(LowerLetters) \cup CharsOf(Digits) \cup {"_"}

\* \s, as far as a line of text can hold it
SpaceChars == {" ", "\t", "\r"}

IsWord(c) == c \in WordChars

IsSpace(c) == c \in SpaceChars

\* the case mappings of the letters, as tables
LowerOf == [c \in CharsOf(UpperLetters) |->
                At(LowerLetters, CHOOSE i \in 1..26 : At(UpperLetters, i) = c)]

UpperOf == [c \in CharsOf(LowerLetters) |->
                At(UpperLetters, CHOOSE i \in 1..26 : At(LowerLetters, i) = c)]

LowerChar(c) == IF c \in DOMAIN LowerOf THEN LowerOf[c] ELSE c

UpperChar(c) == IF c \in DOMAIN UpperOf THEN UpperOf[c] ELSE c

RECURSIVE toLowerCase(_)
toLowerCase(s) == IF s = "" THEN "" ELSE LowerChar(At(s, 1)) \o toLowerCase(SubSeq(s, 2, Len(s)))

RECURSIVE toUpperCase(_)
toUpperCase(s) == IF s = "" THEN "" ELSE UpperChar(At(s, 1)) \o toUpperCase(SubSeq(s, 2, Len(s)))

\* s.startsWith(p), and the same at position i
MatchesAt(s, i, p) == i + Len(p) - 1 <= Len(s) /\ SubSeq(s, i, i + Len(p) - 1) = p

startsWith(s, p) == MatchesAt(s, 1, p)

\* s.includes(p)
includes(s, p) == \E i \in 1..(Len(s) + 1) : MatchesAt(s, i, p)

\* the first position >= i of s that holds no character of set cs (Len(s)+1 if none)
RECURSIVE SkipWhile(_, _, _)
SkipWhile(s, i, cs) ==
    IF i <= Len(s) /\ At(s, i) \in cs THEN SkipWhile(s, i + 1, cs) ELSE i

\* the last position <= i of s that holds no character of set cs (0 if none)
RECURSIVE SkipBack(_, _, _)
SkipBack(s, i, cs) ==
    IF i >= 1 /\ At(s, i) \in cs THEN SkipBack(s, i - 1, cs) ELSE i

\* s.trim()
trim(s) ==
    LET a == SkipWhile(s, 1, SpaceChars \cup {"\n"})
        b == SkipBack(s, Len(s), SpaceChars \cup {"\n"})
    IN  IF a > b THEN "" ELSE SubSeq(s, a, b)

\* the first position >= i of s that holds character c (Len(s)+1 if none)
RECURSIVE FindChar(_, _, _)
FindChar(s, i, c) ==
    IF i <= Len(s) /\ At(s, i) # c THEN FindChar(s, i + 1, c) ELSE i

\* s.split(c) for a one-character separator c: never empty, "" gives <<"">>
RECURSIVE split(_, _)
split(s, c) ==
    LET j == FindChar(s, 1, c)
    IN  IF j > Len(s) THEN <<s>>
        ELSE <<SubSeq(s, 1, j - 1)>> \o split(SubSeq(s, j + 1, Len(s)), c)

\* the maximal runs of characters outside cs: s.split(/[cs]+/) without its empty pieces
RECURSIVE Runs(_, _)
Runs(s, cs) ==
    LET a == SkipWhile(s, 1, cs)
        b == SkipWhile(s, a, CharsOf(s) \ cs)
    IN  IF a > Len(s) THEN <<>>
        ELSE <<SubSeq(s, a, b - 1)>> \o Runs(SubSeq(s, b, Len(s)), cs)

\* array.map(s => s.trim())
TrimAll(seq) == [k \in 1..Len(seq) |-> trim(seq[k])]

\* array.includes(x)
Has(seq, x) == \E k \in 1..Len(seq) : seq[k] = x

\* word.replace(/[^a-zA-Z0-9_]/g, '')
RECURSIVE OnlyWordChars(_)
OnlyWordChars(s) ==
    IF s = "" THEN ""
    ELSE (IF IsWord(At(s, 1)) THEN At(s, 1) ELSE "") \o OnlyWordChars(SubSeq(s, 2, Len(s)))

\* /^[A-Za-z0-9_]+$/.test(w)
AllWord(w) == w # "" /\ \A i \in 1..Len(w) : IsWord(At(w, i))


(***************************************************************************)
(* The inputs: a diagram transcript or a CSV file of at most MaxLines      *)
(* lines, the lines joined by newlines.  The lines are trimmed already.    *)
(* An arrow line or a lower-case header may stray into a CSV file.         *)
(***************************************************************************)
TranscriptLines ==
    { "ODP: SRC",
      "FDP: TGT",
      "FDP: SRC",
      "cdp: mart",
      "ODP.CUST FDP.CUST_CLEAN",
      "CUST_ID NAME",
      "created_at",
      "id -> id",
      "->",
      "" }

CsvFileLines ==
    { "raw_customers,customer_id,fdp_customer,id,STRING",
      "raw_customers,cust_no,fdp_customer,id,STRING,TRIM(cust_no)",
      "raw_events,event_id,cdp_orders,id",
      "fdp_cdp_mart,id,raw_events,id",
      ",,,",
      "cdp: mart",
      "id -> id",
      "" }

\* transcripts of arrow mappings, with and without table names
ArrowFileLines ==
    { "FDP: TGT",
      "id -> id",
      "SRC.a -> TGT.b",
      "raw_customers.customer_id -> fdp_customer.id",
      "ODP.A -> FDP.B" }

\* CSV files with a comment, a header line and lines of fewer than 4 values
CsvNoiseLines ==
    { "# source,field,target,field",
      "Source_Table,source_field,target_table,target_field",
      "raw_events,event_id,cdp_orders",
      "raw_events,event_id,cdp_orders,id,,UPPER(event_id)",
      "raw_customers,customer_id,fdp_customer,id,STRING" }

\* transcripts of loose field lines under two headers or one, a reserved
\* word among the fields
LooseFileLines ==
    { "ODP.A -> FDP.B",
      "FDP: TGT",
      "ID CUST_ID NAME",
      "CUST_ID NAME",
      "NAME" }

\* transcripts that declare one name with every layer token
HeaderFileLines ==
    { "ODP: SRC",
      "raw: SRC",
      "Foundation SRC",
      "consumption.SRC",
      "NAME" }

InputLines ==
    TranscriptLines \cup CsvFileLines \cup ArrowFileLines \cup CsvNoiseLines
        \cup LooseFileLines \cup HeaderFileLines

(***************************************************************************)
(* src/types.ts: enum ProductLayer (the display labels are the values).    *)
(***************************************************************************)
ODP == "ODP (Origination)"

FDP == "FDP (Foundational)"

CDP == "CDP (Common/Consumption)"

ProductLayer == {ODP, FDP, CDP}

\* x || d on strings: the empty string is falsy
OrElse(x, d) == IF x = "" THEN d ELSE x

(***************************************************************************)
(* detectLayer(tableName)                                                  *)
(***************************************************************************)
\* the two tests in the other order
detectLayer_FoundationalFirst(tableName) ==
    LET lower == toLowerCase(tableName)
    IN  IF startsWith(lower, "fdp") \/ includes(lower, "_fdp") \/ includes(lower, "foundation")
        THEN FDP
        ELSE IF startsWith(lower, "cdp") \/ includes(lower, "_cdp") \/ includes(lower, "consumption")
        THEN CDP
        ELSE ODP

detectLayer(tableName) ==
    LET lower == toLowerCase(tableName)
    IN  IF startsWith(lower, "cdp") \/ includes(lower, "_cdp") \/ includes(lower, "consumption")
        THEN CDP
        ELSE IF startsWith(lower, "fdp") \/ includes(lower, "_fdp") \/ includes(lower, "foundation")
        THEN FDP
        ELSE ODP

(***************************************************************************)
(* The regular expressions of parseMarkdownFormat.                         *)
(***************************************************************************)
\* the alternation (ODP|FDP|CDP|RAW|FOUNDATION|CONSUMPTION), in its order
LayerTokens == <<"ODP", "FDP", "CDP", "RAW", "FOUNDATION", "CONSUMPTION">>

\* the text the alternation matches at position i under the flag i, "" if none
TokenAt(line, i) ==
    LET hits == { k \in 1..Len(LayerTokens) :
                    /\ i + Len(LayerTokens[k]) - 1 <= Len(line)
                    /\ toUpperCase(SubSeq(line, i, i + Len(LayerTokens[k]) - 1)) = LayerTokens[k] }
        k == CHOOSE h \in hits : \A g \in hits : h <= g
    IN  IF hits = {} THEN "" ELSE SubSeq(line, i, i + Len(LayerTokens[k]) - 1)

\* the layer of a matched layer token
TokenLayer(token) ==
    LET layerStr == toUpperCase(token)
    IN  IF layerStr \in {"CDP", "CONSUMPTION"} THEN CDP
        ELSE IF layerStr \in {"FDP", "FOUNDATION"} THEN FDP
        ELSE ODP

\* one match of /\b(TOKEN)\.([A-Za-z0-9_]+)\b/gi starting exactly at i: <<match>> or <<>>
DotMatchAt(line, i) ==
    LET t == TokenAt(line, i)
        d == i + Len(t)
        e == SkipWhile(line, d + 1, WordChars)
    IN  IF /\ t # ""
           /\ (i = 1 \/ ~IsWord(At(line, i - 1)))
           /\ At(line, d) = "."
           /\ e > d + 1
        THEN <<[layerStr |-> t, tableName |-> SubSeq(line, d + 1, e - 1), end |-> e]>>
        ELSE <<>>

\* [...line.matchAll(/\b(TOKEN)\.([A-Za-z0-9_]+)\b/gi)] searched from position i
RECURSIVE DotMatchesFrom(_, _)
DotMatchesFrom(line, i) ==
    IF i > Len(line) THEN <<>>
    ELSE LET m == DotMatchAt(line, i)
         IN  IF m = <<>> THEN DotMatchesFrom(line, i + 1)
             ELSE m \o DotMatchesFrom(line, m[1].end)

\* the matches of the input lines, computed once
DotTable == [l \in InputLines |-> DotMatchesFrom(l, 1)]

dotNotationMatches(line) == IF line \in InputLines THEN DotTable[line] ELSE DotMatchesFrom(line, 1)

\* [:\s_-]
HeaderSeparators == {":", "_", "-"} \cup SpaceChars

\* line.match(/^(TOKEN)[:\s_-]+(\w+)/i): <<match>> or <<>>.  The separator run is
\* greedy and gives characters back until a word character starts the name.
StandardMatchOf(line) ==
    LET t == TokenAt(line, 1)
        p == Len(t) + 1
        n == SkipWhile(line, p, HeaderSeparators)
        starts == { q \in (p + 1)..n : IsWord(At(line, q)) }
        q == CHOOSE x \in starts : \A y \in starts : y <= x
    IN  IF t # "" /\ starts # {}
        THEN <<[layerStr |-> t,
                tableName |-> SubSeq(line, q, SkipWhile(line, q, WordChars) - 1)]>>
        ELSE <<>>

\* the matches of the input lines, computed once
StandardTable == [l \in InputLines |-> StandardMatchOf(l)]

standardMatch(line) == IF line \in InputLines THEN StandardTable[line] ELSE StandardMatchOf(line)

\* the match of the arrow expression that starts exactly at i: <<match>> or <<>>
ArrowAt(line, i) ==
    LET e1 == SkipWhile(line, i, WordChars)
        d1 == IF At(line, e1) = "." THEN e1 + 1 ELSE e1
        e2 == SkipWhile(line, d1, WordChars)
        a  == SkipWhile(line, e2, SpaceChars)
        b  == SkipWhile(line, a + 2, SpaceChars)
        e3 == SkipWhile(line, b, WordChars)
        d3 == IF At(line, e3) = "." THEN e3 + 1 ELSE e3
        e4 == SkipWhile(line, d3, WordChars)
    IN  IF /\ e1 > i
           /\ At(line, a) \in {"-", "="}
           /\ At(line, a + 1) = ">"
           /\ e3 > b
        THEN <<[p1 |-> SubSeq(line, i, e1 - 1), p2 |-> SubSeq(line, d1, e2 - 1),
                p3 |-> SubSeq(line, b, e3 - 1), p4 |-> SubSeq(line, d3, e4 - 1)]>>
        ELSE <<>>

\* line.match(/([A-Za-z0-9_]+)\.?([A-Za-z0-9_]*)\s*[-=]>\s*([A-Za-z0-9_]+)\.?([A-Za-z0-9_]*)/):
\* the leftmost match
MappingMatchOf(line) ==
    LET at == { i \in 1..Len(line) : ArrowAt(line, i) # <<>> }
    IN  IF at = {} THEN <<>> ELSE ArrowAt(line, CHOOSE i \in at : \A j \in at : i <= j)

\* the matches of the input lines, computed once
MappingTable == [l \in InputLines |-> MappingMatchOf(l)]

mappingMatch(line) == IF line \in InputLines THEN MappingTable[line] ELSE MappingMatchOf(line)

\* line.split(/[\s|]+/).filter(w => w.length > 1 && /^[A-Za-z0-9_]+$/.test(w))
IsPotentialField(w) == Len(w) > 1 /\ AllWord(w)

RECURSIVE FilterFields(_)
FilterFields(words) ==
    IF words = <<>> THEN <<>>
    ELSE (IF IsPotentialField(Head(words)) THEN <<Head(words)>> ELSE <<>>)
         \o FilterFields(Tail(words))

PotentialFieldsOf(line) == FilterFields(Runs(line, SpaceChars \cup {"|"}))

\* the words of the input lines, computed once
FieldsTable == [l \in InputLines |-> PotentialFieldsOf(l)]

potentialFields(line) == IF line \in InputLines THEN FieldsTable[line] ELSE PotentialFieldsOf(line)

(***************************************************************************)
(* Table Fragments (ParsedTableFragment) and the loose field rule.         *)
(* activeTables holds references to fragments: positions in explicitTables.*)
(***************************************************************************)
ReservedWords == {"ODP", "FDP", "CDP", "ID", "NULL"}

\* the lookup by name alone
FindFragment_ByName(frags, tableName, layer) ==
    LET hits == { k \in 1..Len(frags) : frags[k].name = tableName }
    IN  IF hits = {} THEN 0 ELSE CHOOSE k \in hits : \A j \in hits : k <= j

\* explicitTables.find(t => t.name === tableName && t.layer === layer): position, 0 if none
FindFragment(frags, tableName, layer) ==
    LET hits == { k \in 1..Len(frags) : frags[k].name = tableName /\ frags[k].layer = layer }
    IN  IF hits = {} THEN 0 ELSE CHOOSE k \in hits : \A j \in hits : k <= j

\* the find-or-push of both header rules: the fragments afterwards
WithFragment(frags, tableName, layer) ==
    IF FindFragment(frags, tableName, layer) = 0
    THEN Append(frags, [name |-> tableName, layer |-> layer, fields |-> <<>>])
    ELSE frags

\* the keyword test, the duplicate test and the push of one word onto a field list
PushField(fields, word) ==
    IF toUpperCase(word) \notin ReservedWords /\ ~Has(fields, word)
    THEN LET cleanField == OnlyWordChars(word)
         IN  IF Len(cleanField) > 1 THEN Append(fields, cleanField) ELSE fields
    ELSE fields

\* the dot-notation loop over the matches m[k..]: <<fragments, newTables>>
RECURSIVE DotHeaderLoop(_, _, _, _)
DotHeaderLoop(m, k, frags, newTables) ==
    IF k > Len(m) THEN <<frags, newTables>>
    ELSE LET layer == TokenLayer(m[k].layerStr)
             next  == WithFragment(frags, m[k].tableName, layer)
         IN  DotHeaderLoop(m, k + 1, next,
                           Append(newTables, FindFragment(next, m[k].tableName, layer)))

\* for (let i = 0; i < activeTables.length; i++): word i goes to active table i
RECURSIVE PositionalLoop(_, _, _, _)
PositionalLoop(frags, active, words, k) ==
    IF k > Len(active) THEN frags
    ELSE PositionalLoop(
            [frags EXCEPT ![active[k]].fields = PushField(@, words[k])], active, words, k + 1)

\* for (const word of potentialFields): every word goes to the last active table
RECURSIVE FallbackLoop(_, _, _)
FallbackLoop(fields, words, k) ==
    IF k > Len(words) THEN fields
    ELSE FallbackLoop(PushField(fields, words[k]), words, k + 1)

\* rule 4 on one line: the fragments afterwards
LooseFields(frags, active, line) ==
    LET words == potentialFields(line)
        last  == active[Len(active)]
    IN  IF Len(active) > 1 /\ Len(words) >= Len(active)
        THEN PositionalLoop(frags, active, words, 1)
        ELSE [frags EXCEPT ![last].fields = FallbackLoop(@, words, 1)]

\* no placeholder names: without an active table a side is read as a table name
ArrowRow_NoPlaceholder(frags, active, m) ==
    LET sourceTable == IF m.p2 # "" THEN m.p1
                       ELSE IF Len(active) > 0 THEN frags[active[1]].name ELSE m.p1
        sourceField == IF m.p2 # "" THEN m.p2 ELSE m.p1
        targetTable == IF m.p4 # "" THEN m.p3
                       ELSE IF Len(active) > 0 THEN frags[active[Len(active)]].name
                            ELSE m.p3
        targetField == IF m.p4 # "" THEN m.p4 ELSE m.p3
    IN  [sourceTable |-> sourceTable, sourceField |-> sourceField,
         targetTable |-> targetTable, targetField |-> targetField,
         dataType |-> "STRING", transformation |-> <<>>,
         sourceLayer |-> detectLayer(sourceTable),
         targetLayer |-> detectLayer(targetTable)]

\* the source table taken from the last active table as well
ArrowRow_SourceFromLast(frags, active, m) ==
    LET omitted     == IF Len(active) > 0 THEN frags[active[Len(active)]].name
                       ELSE "Unknown_Target"
        sourceTable == IF m.p2 # "" THEN m.p1 ELSE omitted
        sourceField == IF m.p2 # "" THEN m.p2 ELSE m.p1
        targetTable == IF m.p4 # "" THEN m.p3 ELSE omitted
        targetField == IF m.p4 # "" THEN m.p4 ELSE m.p3
    IN  [sourceTable |-> sourceTable, sourceField |-> sourceField,
         targetTable |-> targetTable, targetField |-> targetField,
         dataType |-> "STRING", transformation |-> <<>>,
         sourceLayer |-> detectLayer(sourceTable),
         targetLayer |-> detectLayer(targetTable)]

\* rule 3 on one line: the Mapping Row of a match
ArrowRow(frags, active, m) ==
    LET sourceTable == IF m.p2 # "" THEN m.p1
                       ELSE IF Len(active) > 0
                            THEN OrElse(frags[active[1]].name, "Unknown_Source")
                            ELSE "Unknown_Source"
        sourceField == IF m.p2 # "" THEN m.p2 ELSE m.p1
        targetTable == IF m.p4 # "" THEN m.p3
                       ELSE IF Len(active) > 0
                            THEN OrElse(frags[active[Len(active)]].name, "Unknown_Target")
                            ELSE "Unknown_Target"
        targetField == IF m.p4 # "" THEN m.p4 ELSE m.p3
    IN  [sourceTable |-> sourceTable, sourceField |-> sourceField,
         targetTable |-> targetTable, targetField |-> targetField,
         dataType |-> "STRING", transformation |-> <<>>,
         sourceLayer |-> detectLayer(sourceTable),
         targetLayer |-> detectLayer(targetTable)]

(***************************************************************************)
(* parseCSV: one line.  An absent transformation is <<>>, a present one    *)
(* <<text>>.                                                               *)
(***************************************************************************)
\* the header test without toLowerCase
CsvSkipped_CaseSensitive(line) ==
    line = "" \/ startsWith(line, "#") \/ startsWith(line, "source_table")

CsvSkipped(line) ==
    line = "" \/ startsWith(line, "#") \/ startsWith(toLowerCase(line), "source_table")

CsvParts(line) == TrimAll(split(line, ","))

\* the table names bound the wrong way round
CsvRow_Swapped(parts) ==
    [sourceTable |-> parts[3], sourceField |-> parts[2],
     targetTable |-> parts[1], targetField |-> parts[4],
     dataType |-> IF Len(parts) >= 5 THEN OrElse(parts[5], "STRING") ELSE "STRING",
     transformation |-> IF Len(parts) >= 6 /\ parts[6] # "" THEN <<parts[6]>> ELSE <<>>,
     sourceLayer |-> detectLayer(parts[3]),
     targetLayer |-> detectLayer(parts[1])]

CsvRow(parts) ==
    [sourceTable |-> parts[1], sourceField |-> parts[2],
     targetTable |-> parts[3], targetField |-> parts[4],
     dataType |-> IF Len(parts) >= 5 THEN OrElse(parts[5], "STRING") ELSE "STRING",
     transformation |-> IF Len(parts) >= 6 /\ parts[6] # "" THEN <<parts[6]>> ELSE <<>>,
     sourceLayer |-> detectLayer(parts[1]),
     targetLayer |-> detectLayer(parts[3])]

(***************************************************************************)
(* generateTables.  The Map<string, TableMetadata> is the sequence of its  *)
(* values in insertion order, keyed by targetName.                         *)
(***************************************************************************)
\* position of the key in the map, 0 if absent (tables.has / tables.get)
KeyIndex(tables, key) ==
    LET hits == { k \in 1..Len(tables) : tables[k].targetName = key }
    IN  IF hits = {} THEN 0 ELSE CHOOSE k \in hits : TRUE

\* a list in place of the map: every value is appended
MapSet_AlwaysAppend(tables, value) == Append(tables, value)

\* tables.set(key, value): an existing key keeps its place
MapSet(tables, value) ==
    IF KeyIndex(tables, value.targetName) = 0 THEN Append(tables, value)
    ELSE [tables EXCEPT ![KeyIndex(tables, value.targetName)] = value]

\* `${layer.toLowerCase().split(' ')[0]}-${name}`
TableId(layer, name) == split(toLowerCase(layer), " ")[1] \o "-" \o name

\* the seeded columns without the key column
DefaultColumns_NoId == <<"created_at", "updated_at">>

DefaultColumns == <<"id", "created_at", "updated_at">>

\* step 1 of generateTables for the fragments frags[k..]
RECURSIVE SeedTables(_, _, _)
SeedTables(tables, frags, k) ==
    IF k > Len(frags) THEN tables
    ELSE SeedTables(
            MapSet(tables, [id |-> TableId(frags[k].layer, frags[k].name),
                            layer |-> frags[k].layer,
                            targetName |-> frags[k].name,
                            columns |-> DefaultColumns \o frags[k].fields,
                            primaryKeys |-> <<"id">>,
                            sources |-> <<>>,
                            checkTypes |-> <<>>]),
            frags, k + 1)

\* the has() test left out: the table is set anew every time
ensureTableExists_Overwrite(tables, tableName, layer) ==
    MapSet(tables, [id |-> TableId(layer, tableName),
                    layer |-> layer,
                    targetName |-> tableName,
                    columns |-> DefaultColumns,
                    primaryKeys |-> <<"id">>,
                    sources |-> <<>>,
                    checkTypes |-> <<>>])

ensureTableExists(tables, tableName, layer) ==
    IF KeyIndex(tables, tableName) = 0
    THEN MapSet(tables, [id |-> TableId(layer, tableName),
                         layer |-> layer,
                         targetName |-> tableName,
                         columns |-> DefaultColumns,
                         primaryKeys |-> <<"id">>,
                         sources |-> <<>>,
                         checkTypes |-> <<>>])
    ELSE tables

\* if (!columns.includes(field)) columns.push(field)
AddColumn(columns, field) == IF Has(columns, field) THEN columns ELSE Append(columns, field)

\* position of the Source Reference named name, 0 if none
SourceIndex(sources, name) ==
    LET hits == { k \in 1..Len(sources) : sources[k].name = name }
    IN  IF hits = {} THEN 0 ELSE CHOOSE k \in hits : \A j \in hits : k <= j

\* the duplicate test left out: every row's mapping is pushed
AddMapping_NoCheck(mappings, row) ==
    Append(mappings, [sourceField |-> row.sourceField,
                      targetField |-> row.targetField,
                      transformation |-> IF row.transformation = <<>> THEN ""
                                         ELSE row.transformation[1]])

\* "Avoid duplicate mappings": the mappings of a Source Reference after one row
AddMapping(mappings, row) ==
    IF \E k \in 1..Len(mappings) : mappings[k].targetField = row.targetField
    THEN mappings
    ELSE Append(mappings, [sourceField |-> row.sourceField,
                           targetField |-> row.targetField,
                           transformation |-> IF row.transformation = <<>> THEN ""
                                              ELSE row.transformation[1]])

\* the find() left out: every row pushes a Source Reference of its own
AddSource_AlwaysPush(sources, row) ==
    LET entries == Append(sources, [name |-> row.sourceTable, mappings |-> <<>>])
    IN  [entries EXCEPT ![Len(entries)].mappings = AddMapping(@, row)]

\* "Add Mapping to Target Table": the sources of the target table after one row
AddSource(sources, row) ==
    LET found   == SourceIndex(sources, row.sourceTable)
        entries == IF found = 0
                   THEN Append(sources, [name |-> row.sourceTable, mappings |-> <<>>])
                   ELSE sources
        at      == SourceIndex(entries, row.sourceTable)
    IN  [entries EXCEPT ![at].mappings = AddMapping(@, row)]

\* the source table is not ensured: only the target side of a row is built
ApplyRow_TargetOnly(tables, row) ==
    LET t1 == ensureTableExists(tables, row.targetTable, OrElse(row.targetLayer, ODP))
        tg == KeyIndex(t1, row.targetTable)
        t2 == [t1 EXCEPT ![tg].columns = AddColumn(@, row.targetField)]
    IN  [t2 EXCEPT ![tg].sources = AddSource(@, row)]

\* step 2 of generateTables for one row
ApplyRow(tables, row) ==
    LET t1 == ensureTableExists(tables, row.targetTable, OrElse(row.targetLayer, ODP))
        tg == KeyIndex(t1, row.targetTable)
        t2 == [t1 EXCEPT ![tg].columns = AddColumn(@, row.targetField)]
        t3 == ensureTableExists(t2, row.sourceTable, OrElse(row.sourceLayer, ODP))
        sr == KeyIndex(t3, row.sourceTable)
        t4 == [t3 EXCEPT ![sr].columns = AddColumn(@, row.sourceField)]
    IN  [t4 EXCEPT ![tg].sources = AddSource(@, row)]

(***************************************************************************)
(* analyze: the lineage map and the summary.                               *)
(***************************************************************************)
\* lineage.set(table.targetName, table.sources.map(s => s.name)) for tables[k..]
RECURSIVE BuildLineage(_, _, _)
BuildLineage(lineage, tables, k) ==
    IF k > Len(tables) THEN lineage
    ELSE LET entry == [key |-> tables[k].targetName,
                       value |-> [j \in 1..Len(tables[k].sources) |-> tables[k].sources[j].name]]
             hits  == { j \in 1..Len(lineage) : lineage[j].key = entry.key }
         IN  BuildLineage(IF hits = {} THEN Append(lineage, entry)
                          ELSE [lineage EXCEPT ![CHOOSE j \in hits : TRUE] = entry],
                          tables, k + 1)

CountLayer(tables, layer) == Cardinality({ k \in 1..Len(tables) : tables[k].layer = layer })

\* totalFields counting a repeated row once
Summary_DistinctRows(tables, rows) ==
    [odpTables |-> CountLayer(tables, ODP),
     fdpTables |-> CountLayer(tables, FDP),
     cdpTables |-> CountLayer(tables, CDP),
     totalFields |-> Cardinality({ rows[k] : k \in 1..Len(rows) })]

Summary(tables, rows) ==
    [odpTables |-> CountLayer(tables, ODP),
     fdpTables |-> CountLayer(tables, FDP),
     cdpTables |-> CountLayer(tables, CDP),
     totalFields |-> Len(rows)]

\* the format test with the markers compared without regard to case
IsMarkdown_AnyCase(text) ==
    \/ includes(toUpperCase(text), "ODP:") \/ includes(toUpperCase(text), "FDP:")
    \/ includes(toUpperCase(text), "CDP:") \/ includes(text, "->")

\* the format test of analyze
IsMarkdown(text) ==
    includes(text, "ODP:") \/ includes(text, "FDP:") \/ includes(text, "CDP:") \/ includes(text, "->")

\* content.split('\n').map(l => l.trim()).filter(l => l && l.length > 1)
KeepLine(l) == l # "" /\ Len(l) > 1

RECURSIVE FilterLines(_)
FilterLines(ls) ==
    IF ls = <<>> THEN <<>>
    ELSE (IF KeepLine(Head(ls)) THEN <<Head(ls)>> ELSE <<>>) \o FilterLines(Tail(ls))

MarkdownLines(text) == FilterLines(TrimAll(split(text, "\n")))

\* content.trim().split('\n')
CsvLines(text) == split(trim(text), "\n")

(***************************************************************************)
(* The inputs, joined.                                                     *)
(***************************************************************************)
RECURSIVE Join(_)
Join(ls) ==
    IF ls = <<>> THEN ""
    ELSE IF Len(ls) = 1 THEN ls[1]
    ELSE ls[1] \o "\n" \o Join(Tail(ls))

Texts(ls) == { Join(t) : t \in UNION { [1..n -> ls] : n \in 0..MaxLines } }

Contents ==
    Texts(TranscriptLines) \cup Texts(CsvFileLines) \cup Texts(ArrowFileLines)
        \cup Texts(CsvNoiseLines) \cup Texts(LooseFileLines) \cup Texts(HeaderFileLines)

(***************************************************************************)
(* RealTextExtractor (clientSideImageAnalyzer.ts): the parser of the text  *)
(* the OCR read from an image.                                             *)
(***************************************************************************)
\* the lines an OCR text is made of
OcrLines == {"ODP", "CUSTOMERS", "NAME", "ID.", "c0de | name -> NAME"}

OcrTexts == Texts(OcrLines)

\* \s
Whitespace == SpaceChars \cup {"\n"}

Letters == CharsOf(UpperLetters) \cup CharsOf(LowerLetters)

\* s.replace(/\s+/g, ' ')
RECURSIVE CollapseSpaces(_)
CollapseSpaces(s) ==
    IF s = "" THEN ""
    ELSE IF At(s, 1) \in Whitespace
         THEN " " \o CollapseSpaces(SubSeq(s, SkipWhile(s, 1, Whitespace), Len(s)))
         ELSE At(s, 1) \o CollapseSpaces(SubSeq(s, 2, Len(s)))

\* s.replace(p, r) for a global pattern that is the literal p
RECURSIVE ReplaceEach(_, _, _)
ReplaceEach(s, p, r) ==
    IF s = "" THEN ""
    ELSE IF MatchesAt(s, 1, p) THEN r \o ReplaceEach(SubSeq(s, Len(p) + 1, Len(s)), p, r)
         ELSE At(s, 1) \o ReplaceEach(SubSeq(s, 2, Len(s)), p, r)

cleanOCRText(text) ==
    LET spaces == CollapseSpaces(text)
        bars   == ReplaceEach(spaces, "|", "I")
        zeros  == ReplaceEach(bars, "0", "O")
        crlf   == ReplaceEach(zeros, "\r\n", "\n")
    IN  ReplaceEach(crlf, "\r", "\n")

\* cleanedText.split('\n').map(l => l.trim()).filter(l => l.length > 2)
ExtractedLines(text) ==
    SelectSeq(TrimAll(split(cleanOCRText(text), "\n")), LAMBDA l : Len(l) > 2)

\* /\b(w1|w2|...)\b/i.test(s)
HasWord(s, words) ==
    LET upper == toUpperCase(s)
    IN  \E i \in 1..Len(s) : \E w \in words :
           /\ MatchesAt(upper, i, w)
           /\ ~IsWord(At(s, i - 1))
           /\ ~IsWord(At(s, i + Len(w)))

OdpWords == {"ODP", "OPERATIONAL", "RAW"}

FdpWords == {"FDP", "FOUNDATION", "CLEAN"}

CdpWords == {"CDP", "CONSUMPTION", "COMMON", "ANALYTICS"}

\* line.length < 3 || /^[^a-zA-Z0-9_]+$/.test(line)
IsNoise(line) ==
    \/ Len(line) < 3
    \/ \A i \in 1..Len(line) : ~IsWord(At(line, i))

\* the characters of s that are in keep
RECURSIVE Keep(_, _)
Keep(s, keep) ==
    IF s = "" THEN ""
    ELSE (IF At(s, 1) \in keep THEN At(s, 1) ELSE "") \o Keep(SubSeq(s, 2, Len(s)), keep)

\* line.replace(/[^\w\s_-]/g, '').trim()
CleanLine(line) == trim(Keep(line, WordChars \cup Whitespace \cup {"-"}))

\* cleanLine.match(/^([A-Z][A-Z0-9_]{n,})\s*$/i): <<>> or <<group 1>>
NameMatch(cleanLine, n) ==
    LET e == SkipWhile(cleanLine, 1, WordChars)
    IN  IF /\ At(cleanLine, 1) \in Letters
           /\ e - 1 >= n + 1
           /\ SkipWhile(cleanLine, e, Whitespace) > Len(cleanLine)
        THEN <<SubSeq(cleanLine, 1, e - 1)>>
        ELSE <<>>

\* cleanLine.match(/^([A-Z][A-Z0-9_]{2,})\s*$/i)
tableMatch(cleanLine) == NameMatch(cleanLine, 2)

\* cleanLine.match(/^([A-Z][A-Z0-9_]*)\s*$/i)
fieldMatch(cleanLine) == NameMatch(cleanLine, 0)

\* s.replace(/[^A-Z0-9_]/g, '_')
RECURSIVE Underscored(_)
Underscored(s) ==
    IF s = "" THEN ""
    ELSE (IF At(s, 1) \in CharsOf(UpperLetters) \cup CharsOf(Digits) \cup {"_"}
          THEN At(s, 1) ELSE "_") \o Underscored(SubSeq(s, 2, Len(s)))

\* x.toUpperCase().replace(/[^A-Z0-9_]/g, '_')
UpperName(x) == Underscored(toUpperCase(x))

\* the characters of [-–—>→.] an input of the model can hold
ArrowChars == {"-", ">", "."}

\* the match of the mapping pattern that starts at position i of line
OcrArrowAt(line, i) ==
    LET e1 == SkipWhile(line, i, WordChars)
        a  == SkipWhile(line, e1, Whitespace)
        b  == SkipWhile(line, a, ArrowChars)
        c  == SkipWhile(line, b, Whitespace)
        e2 == SkipWhile(line, c, WordChars)
    IN  IF /\ At(line, i) \in Letters
           /\ e1 - i >= 2
           /\ b > a
           /\ At(line, c) \in Letters
           /\ e2 - c >= 2
        THEN <<[sourceField |-> SubSeq(line, i, e1 - 1),
                targetField |-> SubSeq(line, c, e2 - 1)]>>
        ELSE <<>>

\* line.match(/([A-Za-z][A-Za-z0-9_]+)\s*[-–—>→.]+\s*([A-Za-z][A-Za-z0-9_]+)/):
\* the leftmost match
OcrMappingMatch(line) ==
    LET at == { i \in 1..Len(line) : OcrArrowAt(line, i) # <<>> }
    IN  IF at = {} THEN <<>> ELSE OcrArrowAt(line, CHOOSE i \in at : \A j \in at : i <= j)

\* the extractor before a call
NoExtraction ==
    [pc |-> "idle", text |-> "", lines |-> <<>>, lineIndex |-> 0,
     currentLayer |-> "", currentTable |-> <<>>,
     odpTables |-> <<>>, fdpTables |-> <<>>, cdpTables |-> <<>>, mappings |-> <<>>]

\* the tables of a layer in the state st
LayerTables(st, layer) ==
    IF layer = "ODP" THEN st.odpTables
    ELSE IF layer = "FDP" THEN st.fdpTables
    ELSE st.cdpTables

\* [...odpTables, ...fdpTables, ...cdpTables]
AllTables(st) == st.odpTables \o st.fdpTables \o st.cdpTables

\* the table currentTable refers to
CurrentTable(st) == LayerTables(st, st.currentTable[1].layer)[st.currentTable[1].at]

\* "If no layer detected yet, infer from position (divide into thirds)"
InferredLayer(st, index) ==
    IF /\ st.currentLayer = ""
       /\ ~HasWord(st.text, OdpWords)
       /\ ~HasWord(st.text, FdpWords)
       /\ ~HasWord(st.text, CdpWords)
    THEN IF 3 * index < Len(st.lines) THEN "ODP"
         ELSE IF 3 * index < 2 * Len(st.lines) THEN "FDP"
         ELSE "CDP"
    ELSE st.currentLayer

\* a table line: a table of another name than the current one is pushed to
\* the list of its layer and becomes the current table
WithTable(st, tableName) ==
    IF st.currentTable # <<>> /\ CurrentTable(st).name = tableName THEN st
    ELSE LET table == [name |-> tableName, layer |-> st.currentLayer, fields |-> <<>>]
             at    == Len(LayerTables(st, st.currentLayer)) + 1
             moved == [st EXCEPT !.currentTable = <<[layer |-> st.currentLayer, at |-> at]>>]
         IN  IF st.currentLayer = "ODP"
             THEN [moved EXCEPT !.odpTables = Append(@, table)]
             ELSE IF st.currentLayer = "FDP"
                  THEN [moved EXCEPT !.fdpTables = Append(@, table)]
                  ELSE [moved EXCEPT !.cdpTables = Append(@, table)]

\* a field line: the name is pushed to the fields of the current table
WithField(st, cleanLine) ==
    LET m         == fieldMatch(cleanLine)
        fieldName == UpperName(m[1])
        table     == CurrentTable(st)
        layer     == st.currentTable[1].layer
        at        == st.currentTable[1].at
    IN  IF /\ m # <<>>
           /\ st.currentTable # <<>>
           /\ Len(cleanLine) >= 2
           /\ Len(cleanLine) < 50
           /\ fieldName # table.name
           /\ ~Has(table.fields, fieldName)
           /\ Len(fieldName) >= 2
        THEN IF layer = "ODP"
             THEN [st EXCEPT !.odpTables[at].fields = Append(@, fieldName)]
             ELSE IF layer = "FDP"
                  THEN [st EXCEPT !.fdpTables[at].fields = Append(@, fieldName)]
                  ELSE [st EXCEPT !.cdpTables[at].fields = Append(@, fieldName)]
        ELSE st

\* the first table of ts with the field, <<>> if none
TableWithField(ts, field) ==
    LET hits == { k \in 1..Len(ts) : Has(ts[k].fields, field) }
    IN  IF hits = {} THEN <<>> ELSE <<ts[CHOOSE k \in hits : \A j \in hits : k <= j]>>

\* a mapping line: the mapping is kept when both fields belong to a table
WithMapping(st, line) ==
    LET m           == OcrMappingMatch(line)
        sourceField == UpperName(m[1].sourceField)
        targetField == UpperName(m[1].targetField)
        sourceTable == TableWithField(AllTables(st), sourceField)
        targetTable == TableWithField(AllTables(st), targetField)
    IN  IF m # <<>> /\ sourceTable # <<>> /\ targetTable # <<>>
        THEN [st EXCEPT !.mappings =
                 Append(@, [source |-> sourceTable[1].name, target |-> targetTable[1].name,
                            sourceField |-> sourceField, targetField |-> targetField])]
        ELSE st

\* the body of the loop of parseExtractedText for the next line
ExtractLine(st) ==
    LET index     == st.lineIndex + 1
        line      == st.lines[index]
        at        == [st EXCEPT !.lineIndex = index]
        placed    == [at EXCEPT !.currentLayer = InferredLayer(st, index)]
        cleanLine == CleanLine(line)
    IN  IF IsNoise(line) THEN at
        ELSE IF HasWord(line, OdpWords) THEN [at EXCEPT !.currentLayer = "ODP"]
        ELSE IF HasWord(line, FdpWords) THEN [at EXCEPT !.currentLayer = "FDP"]
        ELSE IF HasWord(line, CdpWords) THEN [at EXCEPT !.currentLayer = "CDP"]
        ELSE IF tableMatch(cleanLine) # <<>> /\ placed.currentLayer # ""
             THEN WithTable(placed, UpperName(tableMatch(cleanLine)[1]))
             ELSE WithMapping(WithField(placed, cleanLine), line)

(***************************************************************************)
(* State of one analyze(content) call.                                     *)
(***************************************************************************)
VARIABLES
    content,        \* the argument of analyze
    pc,             \* where the call stands: start, markdown, csv, rows, done, error
    called,         \* the parsers analyze has called
    lines,          \* the lines the running parser walks
    cursor,         \* position of the next line
    activeTables,   \* parseMarkdownFormat: positions in explicitTables
    explicitTables, \* the Table Fragments
    rows,           \* the Mapping Rows
    tables,         \* generateTables: the table map
    rowCursor,      \* generateTables: position of the next row
    result,         \* <<>> or <<the value analyze returned>>
    error,          \* "" or the message analyze threw
    mappingText,    \* MappingUpload: the text in the input box
    parsedDoc,      \* MappingUpload: <<>> (null) or <<the parsed document>>
    errors,         \* MappingUpload: the error messages shown
    appTables,      \* DataInventoryView: the application's tables
    calls,          \* the number of analyze calls made so far
    firstOutcome,   \* <<>> or <<the text and the outcome of the first call>>
    parsedText,     \* the text parsedDoc was parsed from
    imports,        \* the texts whose documents were imported, in order
    extractor       \* RealTextExtractor: the state of one parseExtractedText call

\* the state outside the running analyze call
session == <<mappingText, parsedDoc, errors, appTables, calls, firstOutcome, parsedText,
             imports>>

vars == <<content, pc, called, lines, cursor, activeTables, explicitTables, rows,
          tables, rowCursor, result, error, session, extractor>>

Init ==
    /\ content \in Contents
    /\ pc = "start"
    /\ called = {}
    /\ lines = <<>>
    /\ cursor = 1
    /\ activeTables = <<>>
    /\ explicitTables = <<>>
    /\ rows = <<>>
    /\ tables = <<>>
    /\ rowCursor = 1
    /\ result = <<>>
    /\ error = ""
    /\ mappingText = content
    /\ parsedDoc = <<>>
    /\ errors = <<>>
    /\ appTables = <<>>
    /\ calls = 1
    /\ firstOutcome = <<>>
    /\ parsedText = ""
    /\ imports = <<>>
    /\ extractor = NoExtraction

(***************************************************************************)
(* analyze, lines 47-56: the format decision and the call of one parser.   *)
(***************************************************************************)
AnalyzeMarkdown ==
    /\ pc = "start"
    /\ IsMarkdown(content)
    /\ pc' = "markdown"
    /\ called' = called \cup {"parseMarkdownFormat"}
    /\ lines' = MarkdownLines(content)
    /\ cursor' = 1
    /\ UNCHANGED <<content, activeTables, explicitTables, rows, tables, rowCursor,
                   result, error>>
    /\ UNCHANGED <<session, extractor>>

AnalyzeCSV ==
    /\ pc = "start"
    /\ ~IsMarkdown(content)
    /\ pc' = "csv"
    /\ called' = called \cup {"parseCSV"}
    /\ lines' = CsvLines(content)
    /\ cursor' = 1
    /\ UNCHANGED <<content, activeTables, explicitTables, rows, tables, rowCursor,
                   result, error>>
    /\ UNCHANGED <<session, extractor>>

(***************************************************************************)
(* parseMarkdownFormat: one pass of the loop body, one action per rule.    *)
(***************************************************************************)
AtMarkdownLine == pc = "markdown" /\ cursor <= Len(lines)

\* 1. dot notation headers
DotNotationHeader ==
    /\ AtMarkdownLine
    /\ dotNotationMatches(lines[cursor]) # <<>>
    /\ LET out == DotHeaderLoop(dotNotationMatches(lines[cursor]), 1, explicitTables, <<>>)
       IN  /\ explicitTables' = out[1]
           /\ activeTables' = out[2]
    /\ cursor' = cursor + 1
    /\ UNCHANGED <<content, pc, called, lines, rows, tables, rowCursor, result, error>>
    /\ UNCHANGED <<session, extractor>>

\* the declared table is added to the active tables
StandardHeader_Appends ==
    /\ AtMarkdownLine
    /\ dotNotationMatches(lines[cursor]) = <<>>
    /\ standardMatch(lines[cursor]) # <<>>
    /\ LET m     == standardMatch(lines[cursor])[1]
           layer == TokenLayer(m.layerStr)
           next  == WithFragment(explicitTables, m.tableName, layer)
       IN  /\ explicitTables' = next
           /\ activeTables' = Append(activeTables, FindFragment(next, m.tableName, layer))
    /\ cursor' = cursor + 1
    /\ UNCHANGED <<content, pc, called, lines, rows, tables, rowCursor, result, error>>
    /\ UNCHANGED <<session, extractor>>

\* 2. standard headers
StandardHeader ==
    /\ AtMarkdownLine
    /\ dotNotationMatches(lines[cursor]) = <<>>
    /\ standardMatch(lines[cursor]) # <<>>
    /\ LET m     == standardMatch(lines[cursor])[1]
           layer == TokenLayer(m.layerStr)
           next  == WithFragment(explicitTables, m.tableName, layer)
       IN  /\ explicitTables' = next
           /\ activeTables' = <<FindFragment(next, m.tableName, layer)>>
    /\ cursor' = cursor + 1
    /\ UNCHANGED <<content, pc, called, lines, rows, tables, rowCursor, result, error>>
    /\ UNCHANGED <<session, extractor>>

\* the arrow rule tried before the header rules
ArrowMapping_First ==
    /\ AtMarkdownLine
    /\ mappingMatch(lines[cursor]) # <<>>
    /\ rows' = Append(rows, ArrowRow(explicitTables, activeTables, mappingMatch(lines[cursor])[1]))
    /\ cursor' = cursor + 1
    /\ UNCHANGED <<content, pc, called, lines, activeTables, explicitTables, tables,
                   rowCursor, result, error>>
    /\ UNCHANGED <<session, extractor>>

\* 3. mappings (arrow notation)
ArrowMapping ==
    /\ AtMarkdownLine
    /\ dotNotationMatches(lines[cursor]) = <<>>
    /\ standardMatch(lines[cursor]) = <<>>
    /\ mappingMatch(lines[cursor]) # <<>>
    /\ rows' = Append(rows, ArrowRow(explicitTables, activeTables, mappingMatch(lines[cursor])[1]))
    /\ cursor' = cursor + 1
    /\ UNCHANGED <<content, pc, called, lines, activeTables, explicitTables, tables,
                   rowCursor, result, error>>
    /\ UNCHANGED <<session, extractor>>

NoRuleMatches(line) ==
    /\ dotNotationMatches(line) = <<>>
    /\ standardMatch(line) = <<>>
    /\ mappingMatch(line) = <<>>

\* 4. fields (loose words), with active tables
LooseFieldLine ==
    /\ AtMarkdownLine
    /\ NoRuleMatches(lines[cursor])
    /\ Len(activeTables) > 0
    /\ explicitTables' = LooseFields(explicitTables, activeTables, lines[cursor])
    /\ cursor' = cursor + 1
    /\ UNCHANGED <<content, pc, called, lines, activeTables, rows, tables, rowCursor,
                   result, error>>
    /\ UNCHANGED <<session, extractor>>

\* a line no rule takes would end the parse with an error
IgnoredLine_Throws ==
    /\ AtMarkdownLine
    /\ NoRuleMatches(lines[cursor])
    /\ Len(activeTables) = 0
    /\ pc' = "error"
    /\ error' = "No valid mapping data found. Please check the input format."
    /\ UNCHANGED <<content, called, lines, cursor, activeTables, explicitTables, rows,
                   tables, rowCursor, result>>
    /\ UNCHANGED <<session, extractor>>

\* 4. fields (loose words), without active tables: nothing happens
IgnoredLine ==
    /\ AtMarkdownLine
    /\ NoRuleMatches(lines[cursor])
    /\ Len(activeTables) = 0
    /\ cursor' = cursor + 1
    /\ UNCHANGED <<content, pc, called, lines, activeTables, explicitTables, rows, tables,
                   rowCursor, result, error>>
    /\ UNCHANGED <<session, extractor>>

(***************************************************************************)
(* parseCSV: one pass of the loop body.                                    *)
(***************************************************************************)
AtCsvLine == pc = "csv" /\ cursor <= Len(lines)

CsvDataLine ==
    /\ AtCsvLine
    /\ ~CsvSkipped(trim(lines[cursor]))
    /\ Len(CsvParts(trim(lines[cursor]))) >= 4
    /\ rows' = Append(rows, CsvRow(CsvParts(trim(lines[cursor]))))
    /\ cursor' = cursor + 1
    /\ UNCHANGED <<content, pc, called, lines, activeTables, explicitTables, tables,
                   rowCursor, result, error>>
    /\ UNCHANGED <<session, extractor>>

CsvSkipLine ==
    /\ AtCsvLine
    /\ CsvSkipped(trim(lines[cursor])) \/ Len(CsvParts(trim(lines[cursor]))) < 4
    /\ cursor' = cursor + 1
    /\ UNCHANGED <<content, pc, called, lines, activeTables, explicitTables, rows, tables,
                   rowCursor, result, error>>
    /\ UNCHANGED <<session, extractor>>

(***************************************************************************)
(* analyze, lines 58-85, and generateTables.                               *)
(***************************************************************************)
ParserReturned == pc \in {"markdown", "csv"} /\ cursor > Len(lines)

\* the test with || for &&
NothingExtracted_Either(rs, frags) == Len(rs) = 0 \/ Len(frags) = 0

\* rows.length === 0 && explicitTables.length === 0
NothingExtracted(rs, frags) == Len(rs) = 0 /\ Len(frags) = 0

\* lines 58-60: nothing was extracted
ThrowNoData ==
    /\ ParserReturned
    /\ NothingExtracted(rows, explicitTables)
    /\ pc' = "error"
    /\ error' = "No valid mapping data found. Please check the input format."
    /\ UNCHANGED <<content, called, lines, cursor, activeTables, explicitTables, rows,
                   tables, rowCursor, result>>
    /\ UNCHANGED <<session, extractor>>

\* generateTables, step 1: the tables of the explicit definitions
SeedFromFragments ==
    /\ ParserReturned
    /\ ~NothingExtracted(rows, explicitTables)
    /\ pc' = "rows"
    /\ tables' = SeedTables(<<>>, explicitTables, 1)
    /\ rowCursor' = 1
    /\ UNCHANGED <<content, called, lines, cursor, activeTables, explicitTables, rows,
                   result, error>>
    /\ UNCHANGED <<session, extractor>>

\* generateTables, step 2: one Mapping Row
MapRow ==
    /\ pc = "rows"
    /\ rowCursor <= Len(rows)
    /\ tables' = ApplyRow(tables, rows[rowCursor])
    /\ rowCursor' = rowCursor + 1
    /\ UNCHANGED <<content, pc, called, lines, cursor, activeTables, explicitTables, rows,
                   result, error>>
    /\ UNCHANGED <<session, extractor>>

\* lines 65-84: lineage, summary and the returned value
Return ==
    /\ pc = "rows"
    /\ rowCursor > Len(rows)
    /\ pc' = "done"
    /\ result' = <<[tables |-> tables,
                    lineage |-> BuildLineage(<<>>, tables, 1),
                    summary |-> Summary(tables, rows)]>>
    /\ UNCHANGED <<content, called, lines, cursor, activeTables, explicitTables, rows,
                   tables, rowCursor, error>>
    /\ UNCHANGED <<session, extractor>>

Next ==
    \/ AnalyzeMarkdown
    \/ AnalyzeCSV
    \/ DotNotationHeader
    \/ StandardHeader
    \/ ArrowMapping
    \/ LooseFieldLine
    \/ IgnoredLine
    \/ CsvDataLine
    \/ CsvSkipLine
    \/ ThrowNoData
    \/ SeedFromFragments
    \/ MapRow
    \/ Return

Spec == Init /\ [][Next]_vars

(***************************************************************************)
(* A session of the mapping upload: MappingUpload.handleParse calls        *)
(* analyze on the text of the input box and keeps the document made of the *)
(* result; DataInventoryView.handleMappingImport merges the document into  *)
(* the application's tables.  The texts of a session are a few transcripts *)
(* and files that together call for every rule.                            *)
(***************************************************************************)
MaxCalls == 3

SessionTexts ==
    { Join(<<"CUST_ID NAME", "ODP: SRC", "created_at">>),
      Join(<<"ODP.CUST FDP.CUST_CLEAN", "id -> id">>),
      Join(<<"FDP: TGT", "id -> id", "SRC.a -> TGT.b">>),
      Join(<<"raw_customers,customer_id,fdp_customer,id,STRING",
             "# source,field,target,field">>),
      Join(<<"ODP.Cust FDP.CUST", "id -> id">>),
      "->" }

\* a table the application holds before the session: App reads the tables
\* from localStorage
LegacyTable ==
    [id |-> "fdp-legacy", layer |-> FDP, targetName |-> "tgt",
     columns |-> <<"id", "b">>, primaryKeys |-> <<"id">>, sources |-> <<>>,
     checkTypes |-> <<>>]

InitialTables == { <<>>, <<LegacyTable>> }

\* handleParse: the field of a column, with the source field of the first
\* mapping onto it
FieldOf(t, col) ==
    LET srcs == { j \in 1..Len(t.sources) :
                    \E x \in 1..Len(t.sources[j].mappings) :
                       t.sources[j].mappings[x].targetField = col }
        src  == t.sources[CHOOSE j \in srcs : \A i \in srcs : j <= i]
        maps == { x \in 1..Len(src.mappings) : src.mappings[x].targetField = col }
        m    == src.mappings[CHOOSE x \in maps : \A y \in maps : x <= y]
    IN  [sourceField |-> IF srcs = {} THEN "" ELSE m.sourceField,
         targetField |-> col,
         sourceType |-> "STRING", targetType |-> "STRING",
         required |-> FALSE, isRequired |-> FALSE]

\* handleParse: one table of the document; the fields skip id, created_at
\* and updated_at
ToTableMapping(t) ==
    [id |-> t.id,
     layer |-> t.layer,
     targetTable |-> t.targetName,
     sourceTable |-> IF Len(t.sources) > 0 THEN t.sources[1].name ELSE "",
     fields |-> [k \in 1..(IF Len(t.columns) > 3 THEN Len(t.columns) - 3 ELSE 0) |->
                    FieldOf(t, t.columns[k + 3])],
     primaryKeys |-> t.primaryKeys]

\* handleParse: the document of a result.  Its id and uploadedAt hold the
\* time of the call; nothing reads them afterwards and they are left out.
ToMappingDocument(res) ==
    [name |-> "Intelligent Mapping Analysis",
     status |-> "parsed",
     tables |-> [k \in 1..Len(res.tables) |-> ToTableMapping(res.tables[k])]]

\* handleMappingImport: the table made of one table of the document.  An
\* empty id would be replaced by a random one.
ImportedTable(t) ==
    [id |-> OrElse(t.id, "imported-"),
     layer |-> t.layer,
     targetName |-> t.targetTable,
     columns |-> [k \in 1..Len(t.fields) |-> t.fields[k].targetField],
     primaryKeys |-> t.primaryKeys,
     sources |-> IF t.sourceTable # ""
                 THEN <<[name |-> t.sourceTable,
                         mappings |-> [k \in 1..Len(t.fields) |->
                                         [sourceField |-> t.fields[k].sourceField,
                                          targetField |-> t.fields[k].targetField,
                                          transformation |-> ""]]]>>
                 ELSE <<>>,
     checkTypes |-> <<>>]

\* every table of the document is added, known or not
handleMappingImport_AddAll(current, doc) ==
    current \o [k \in 1..Len(doc.tables) |-> ImportedTable(doc.tables[k])]

\* handleMappingImport: the application's tables after the merge by id and by
\* upper-cased name
handleMappingImport(current, doc) ==
    LET newTables         == [k \in 1..Len(doc.tables) |-> ImportedTable(doc.tables[k])]
        currentTableIds   == { current[k].id : k \in 1..Len(current) }
        currentTableNames == { toUpperCase(current[k].targetName) : k \in 1..Len(current) }
        tablesToAdd       == SelectSeq(newTables,
                                LAMBDA t : /\ t.id \notin currentTableIds
                                           /\ toUpperCase(t.targetName) \notin currentTableNames)
    IN  IF Len(tablesToAdd) > 0 THEN current \o tablesToAdd ELSE current

SessionInit ==
    /\ content = ""
    /\ pc = "idle"
    /\ called = {}
    /\ lines = <<>>
    /\ cursor = 1
    /\ activeTables = <<>>
    /\ explicitTables = <<>>
    /\ rows = <<>>
    /\ tables = <<>>
    /\ rowCursor = 1
    /\ result = <<>>
    /\ error = ""
    /\ mappingText = ""
    /\ parsedDoc = <<>>
    /\ errors = <<>>
    /\ appTables \in InitialTables
    /\ calls = 0
    /\ firstOutcome = <<>>
    /\ parsedText = ""
    /\ imports = <<>>
    /\ extractor = NoExtraction

\* the rows would be a field of the analyzer: a call starts with the rows of
\* the calls before it
analyze_RowsKept(text) ==
    /\ content' = text
    /\ pc' = "start"
    /\ called' = {}
    /\ lines' = <<>>
    /\ cursor' = 1
    /\ activeTables' = <<>>
    /\ explicitTables' = <<>>
    /\ rows' = rows
    /\ tables' = <<>>
    /\ rowCursor' = 1
    /\ result' = <<>>
    /\ error' = ""

\* analyze is entered: rows, explicitTables and whatever else a call works
\* on are locals, made anew
analyze(text) ==
    /\ content' = text
    /\ pc' = "start"
    /\ called' = {}
    /\ lines' = <<>>
    /\ cursor' = 1
    /\ activeTables' = <<>>
    /\ explicitTables' = <<>>
    /\ rows' = <<>>
    /\ tables' = <<>>
    /\ rowCursor' = 1
    /\ result' = <<>>
    /\ error' = ""

\* what a finished call gave: the returned value or the message thrown
Outcome == [text |-> content, result |-> result, error |-> error]

\* the user types or pastes a text
SetMappingText ==
    /\ pc = "idle"
    /\ mappingText' \in SessionTexts
    /\ UNCHANGED <<content, pc, called, lines, cursor, activeTables, explicitTables, rows,
                   tables, rowCursor, result, error>>
    /\ UNCHANGED <<parsedDoc, errors, appTables, calls, firstOutcome, parsedText, imports>>
    /\ UNCHANGED extractor

\* handleParse, up to the call of analyze
HandleParse ==
    /\ pc = "idle"
    /\ calls < MaxCalls
    /\ analyze(mappingText)
    /\ calls' = calls + 1
    /\ UNCHANGED <<mappingText, parsedDoc, errors, appTables, firstOutcome, parsedText,
                   imports>>
    /\ UNCHANGED extractor

\* handleParse, after analyze returned: the document is kept, the errors cleared
ParseSucceeded ==
    /\ pc = "done"
    /\ pc' = "idle"
    /\ parsedDoc' = <<ToMappingDocument(result[1])>>
    /\ errors' = <<>>
    /\ parsedText' = content
    /\ firstOutcome' = IF calls = 1 THEN <<Outcome>> ELSE firstOutcome
    /\ UNCHANGED <<content, called, lines, cursor, activeTables, explicitTables, rows,
                   tables, rowCursor, result, error>>
    /\ UNCHANGED <<mappingText, appTables, calls, imports>>
    /\ UNCHANGED extractor

\* handleParse, catch: the message is shown, the document stays as it was
ParseFailed ==
    /\ pc = "error"
    /\ pc' = "idle"
    /\ errors' = <<"Analysis error: " \o error>>
    /\ firstOutcome' = IF calls = 1 THEN <<Outcome>> ELSE firstOutcome
    /\ UNCHANGED <<content, called, lines, cursor, activeTables, explicitTables, rows,
                   tables, rowCursor, result, error>>
    /\ UNCHANGED <<mappingText, parsedDoc, appTables, calls, parsedText, imports>>
    /\ UNCHANGED extractor

\* handleImport and handleMappingImport: the document is merged into the
\* application's tables and the upload dialog closed, which drops its state
HandleImport ==
    /\ pc = "idle"
    /\ parsedDoc # <<>>
    /\ errors = <<>>
    /\ appTables' = handleMappingImport(appTables, parsedDoc[1])
    /\ imports' = Append(imports, parsedText)
    /\ parsedDoc' = <<>>
    /\ mappingText' = ""
    /\ errors' = <<>>
    /\ UNCHANGED <<content, pc, called, lines, cursor, activeTables, explicitTables, rows,
                   tables, rowCursor, result, error>>
    /\ UNCHANGED <<calls, firstOutcome, parsedText>>
    /\ UNCHANGED extractor

SessionNext ==
    \/ Next
    \/ SetMappingText
    \/ HandleParse
    \/ ParseSucceeded
    \/ ParseFailed
    \/ HandleImport

SessionSpec == SessionInit /\ [][SessionNext]_vars

(***************************************************************************)
(* Vocabulary of the properties.                                           *)
(***************************************************************************)
Finished == pc \in {"done", "error"}

\* the tables analyze returned
ResultTables == result[1].tables

Names(seq) == { seq[k] : k \in 1..Len(seq) }

NoDuplicates(seq) == \A j, k \in 1..Len(seq) : seq[j] = seq[k] => j = k

IsPrefix(a, b) == Len(a) <= Len(b) /\ SubSeq(b, 1, Len(a)) = a

\* the characters of a text
TextChars(text) == { SubSeq(text, k, k) : k \in 1..Len(text) }

\* a text of punctuation only: no letter, digit, underscore or white space
OnlyPunctuation(text) == TextChars(text) \cap (WordChars \cup SpaceChars \cup {"\n"}) = {}

\* the line is a standard single header of the layer
IsSingleHeader(line, layer) ==
    /\ dotNotationMatches(line) = <<>>
    /\ standardMatch(line) # <<>>
    /\ TokenLayer(standardMatch(line)[1].layerStr) = layer

\* the line is an arrow line with bare fields on both sides
IsBareArrow(line) ==
    /\ dotNotationMatches(line) = <<>>
    /\ standardMatch(line) = <<>>
    /\ mappingMatch(line) # <<>>
    /\ mappingMatch(line)[1].p2 = ""
    /\ mappingMatch(line)[1].p4 = ""

\* a valid token of a loose line: longer than one character, of word characters,
\* not a reserved word
IsValidToken(w) == Len(w) > 1 /\ AllWord(w) /\ toUpperCase(w) \notin ReservedWords

\* the tokens of a line, split on white space and pipes
LineTokens(line) == Runs(line, SpaceChars \cup {"|"})

\* the table of the result with the name and the layer holds the column
HasColumn(name, layer, column) ==
    \E k \in 1..Len(ResultTables) :
        /\ ResultTables[k].targetName = name
        /\ ResultTables[k].layer = layer
        /\ Has(ResultTables[k].columns, column)

(***************************************************************************)
(* C1.  analyze raises the unrecognized-input error exactly when the whole *)
(* input produced no Mapping Row and no Table Fragment; with a row or a    *)
(* fragment it goes on to build and return a result and never raises; and  *)
(* when it raises, nothing is returned.                                    *)
(***************************************************************************)
C1_ThrowsIffNothingExtracted ==
    /\ pc = "error" => /\ Len(rows) = 0 /\ Len(explicitTables) = 0
                       /\ error # "" /\ result = <<>> /\ tables = <<>>
    /\ pc \in {"rows", "done"} => (Len(rows) > 0 \/ Len(explicitTables) > 0) /\ error = ""
    /\ pc = "done" => /\ result # <<>>
                      /\ Len(ResultTables) > 0
    /\ pc \notin {"done", "error"} => result = <<>> /\ error = ""

\* analyze threw on an input with lines in it
C1_Witness == pc = "error" /\ Len(lines) > 1 /\ called = {"parseMarkdownFormat"}

(***************************************************************************)
(* C2.  For the empty string and for every string of punctuation only,     *)
(* analyze throws and returns no tables.                                   *)
(***************************************************************************)
C2_PunctuationOnlyThrows ==
    (Finished /\ OnlyPunctuation(content)) => (pc = "error" /\ result = <<>>)

(***************************************************************************)
(* C3.  After a single header of an ODP table SRC and a single header of   *)
(* an FDP table TGT, a bare arrow line gives exactly one Mapping Row, from *)
(* SRC to TGT.                                                             *)
(***************************************************************************)
C3_ArrowInheritsBothHeaders ==
    ( /\ pc = "markdown" /\ cursor > Len(lines) /\ Len(lines) = 3
      /\ IsSingleHeader(lines[1], ODP)
      /\ IsSingleHeader(lines[2], FDP)
      /\ IsBareArrow(lines[3]) )
    => /\ Len(rows) = 1
       /\ rows[1].sourceTable = standardMatch(lines[1])[1].tableName
       /\ rows[1].targetTable = standardMatch(lines[2])[1].tableName

(***************************************************************************)
(* C4.  A dot-notation header naming two tables, then a line of two valid  *)
(* tokens: exactly two tables, the first token a column of the first, the  *)
(* second token a column of the second.                                    *)
(***************************************************************************)
C4_Lines == split(content, "\n")

\* the input is a dot-notation header of two tables and a line of two valid tokens
C4_Case ==
    /\ Len(C4_Lines) = 2
    /\ Len(dotNotationMatches(C4_Lines[1])) = 2
    /\ Len(LineTokens(C4_Lines[2])) = 2
    /\ \A k \in 1..2 : IsValidToken(LineTokens(C4_Lines[2])[k])

\* C4: after such an input analyze returns exactly two tables, token k a column of
\* the k-th table the header names
C4_PositionalDistribution ==
    (Finished /\ C4_Case)
    => /\ pc = "done"
       /\ Len(ResultTables) = 2
       /\ \A k \in 1..2 :
             HasColumn(dotNotationMatches(C4_Lines[1])[k].tableName,
                       TokenLayer(dotNotationMatches(C4_Lines[1])[k].layerStr),
                       LineTokens(C4_Lines[2])[k])

(***************************************************************************)
(* C5.  No table of the result lists a column name twice.                  *)
(***************************************************************************)
C5_NoDuplicateColumns ==
    pc = "done" => \A k \in 1..Len(ResultTables) : NoDuplicates(ResultTables[k].columns)

(***************************************************************************)
(* C6.  In every Source Reference of every table no two Field Mappings     *)
(* share a target field: of the rows with the same target table, source    *)
(* table and target field, the first one's mapping is the one kept.        *)
(***************************************************************************)
\* the tables built so far, and at the end the tables returned
CurrentTables == IF pc = "done" THEN ResultTables ELSE tables

\* the rows generateTables has processed
ProcessedRows == IF pc = "done" THEN 1..Len(rows) ELSE 1..(rowCursor - 1)

\* the processed rows of one target table, source table and target field
RowsOf(target, source, field) ==
    { i \in ProcessedRows : /\ rows[i].targetTable = target
                            /\ rows[i].sourceTable = source
                            /\ rows[i].targetField = field }

\* C6: target fields are unique within a Source Reference and each mapping is the
\* one of the first processed row of its target table, source table and target field
C6_FirstMappingKept ==
    pc \in {"rows", "done"} =>
        \A k \in 1..Len(CurrentTables) :
          LET t == CurrentTables[k] IN
            \A j \in 1..Len(t.sources) :
              LET ms == t.sources[j].mappings IN
                /\ NoDuplicates([x \in 1..Len(ms) |-> ms[x].targetField])
                /\ \A x \in 1..Len(ms) :
                     LET is    == RowsOf(t.targetName, t.sources[j].name, ms[x].targetField)
                         first == CHOOSE i \in is : \A h \in is : i <= h
                     IN  /\ is # {}
                         /\ ms[x].sourceField = rows[first].sourceField
                         /\ ms[x].transformation =
                              (IF rows[first].transformation = <<>> THEN ""
                               ELSE rows[first].transformation[1])

\* two rows of the same target table, source table and target field with different
\* source fields were processed
C6_Witness ==
    /\ pc = "done"
    /\ \E i, j \in 1..Len(rows) :
         /\ i < j
         /\ j \in RowsOf(rows[i].targetTable, rows[i].sourceTable, rows[i].targetField)
         /\ rows[i].sourceField # rows[j].sourceField

(***************************************************************************)
(* C7.  The format is decided once for the whole input: the transcript     *)
(* parser runs when the raw text holds ODP:, FDP:, CDP: or ->, as written, *)
(* the CSV parser otherwise, and never both.                               *)
(***************************************************************************)
HoldsAt(text, k, marker) ==
    k + Len(marker) - 1 <= Len(text) /\ SubSeq(text, k, k + Len(marker) - 1) = marker

HasMarker(text) ==
    \E k \in 1..Len(text) : \E marker \in {"ODP:", "FDP:", "CDP:", "->"} : HoldsAt(text, k, marker)

\* C7: exactly one parser is called, the transcript parser iff the text holds a marker
C7_OneFormatDecision ==
    LET marked == HasMarker(content)
    IN  /\ pc = "start" => called = {}
        /\ pc # "start" => called = (IF marked THEN {"parseMarkdownFormat"} ELSE {"parseCSV"})
        /\ pc = "markdown" => marked
        /\ pc = "csv" => ~marked
        /\ ~marked => explicitTables = <<>> /\ activeTables = <<>>

\* a header in lower case alone does not make a transcript
C7_Witness ==
    /\ Finished
    /\ \E k \in 1..Len(content) : HoldsAt(content, k, "cdp:")
    /\ called = {"parseCSV"}

(***************************************************************************)
(* C8.  The layer of a name: CONSUMPTION if the lower-cased name starts    *)
(* with cdp or holds _cdp or consumption, otherwise FOUNDATIONAL if it     *)
(* starts with fdp or holds _fdp or foundation, otherwise ORIGINATION.     *)
(***************************************************************************)
Holds(text, marker) == \E k \in 1..Len(text) : HoldsAt(text, k, marker)

ConsumptionMarked(name) ==
    LET l == toLowerCase(name)
    IN  HoldsAt(l, 1, "cdp") \/ Holds(l, "_cdp") \/ Holds(l, "consumption")

FoundationalMarked(name) ==
    LET l == toLowerCase(name)
    IN  HoldsAt(l, 1, "fdp") \/ Holds(l, "_fdp") \/ Holds(l, "foundation")

ClassOf(name) ==
    IF ConsumptionMarked(name) THEN CDP ELSE IF FoundationalMarked(name) THEN FDP ELSE ODP

C8_Classified(name, layer) ==
    /\ layer = ClassOf(name)
    /\ (ConsumptionMarked(name) /\ FoundationalMarked(name)) => layer = CDP
    /\ name = "cdp_orders" => layer = CDP
    /\ name = "fdp_customer" => layer = FDP
    /\ name = "raw_events" => layer = ODP

\* C8: both layers of every Mapping Row are the classification of the table names
C8_LayerClassifier ==
    \A k \in 1..Len(rows) :
        /\ C8_Classified(rows[k].sourceTable, rows[k].sourceLayer)
        /\ C8_Classified(rows[k].targetTable, rows[k].targetLayer)

\* a name with both kinds of marker was classified, beside the three examples
C8_Witness ==
    /\ Len(rows) = 3
    /\ \E k \in 1..3 : rows[k].sourceTable = "fdp_cdp_mart" /\ rows[k].sourceLayer = CDP
    /\ \E k \in 1..3 : rows[k].targetTable = "cdp_orders"
    /\ \E k \in 1..3 : rows[k].targetTable = "fdp_customer"
    /\ \E k \in 1..3 : rows[k].sourceTable = "raw_events"

(***************************************************************************)
(* C9.  A CSV input of one data row s,sf,t,tf,TYPE with s # t: exactly two *)
(* tables, s and t, each in the layer of its name; t has one Source        *)
(* Reference, to s, with the one Field Mapping sf -> tf.                   *)
(***************************************************************************)
C9_Parts == [k \in 1..Len(split(content, ",")) |-> trim(split(content, ",")[k])]

C9_Case ==
    /\ pc = "done"
    /\ called = {"parseCSV"}
    /\ Len(split(content, "\n")) = 1
    /\ Len(C9_Parts) >= 4
    /\ C9_Parts[1] # C9_Parts[3]

\* C9: a one-row CSV input gives the two tables s and t and the one mapping sf -> tf
C9_CsvRoundTrip ==
    /\ C9_Case =>
        /\ Len(ResultTables) = 2
        /\ \E a, b \in 1..2 :
             /\ a # b
             /\ ResultTables[a].targetName = C9_Parts[1]
             /\ ResultTables[a].layer = ClassOf(C9_Parts[1])
             /\ ResultTables[a].sources = <<>>
             /\ ResultTables[b].targetName = C9_Parts[3]
             /\ ResultTables[b].layer = ClassOf(C9_Parts[3])
             /\ Len(ResultTables[b].sources) = 1
             /\ ResultTables[b].sources[1].name = C9_Parts[1]
             /\ Len(ResultTables[b].sources[1].mappings) = 1
             /\ ResultTables[b].sources[1].mappings[1].sourceField = C9_Parts[2]
             /\ ResultTables[b].sources[1].mappings[1].targetField = C9_Parts[4]
    /\ (pc = "done" /\ content = "raw_customers,customer_id,fdp_customer,id,STRING") =>
        \E a, b \in 1..2 :
             /\ ResultTables[a].targetName = "raw_customers" /\ ResultTables[a].layer = ODP
             /\ ResultTables[b].targetName = "fdp_customer" /\ ResultTables[b].layer = FDP

C9_Witness ==
    /\ C9_Case
    /\ content = "raw_customers,customer_id,fdp_customer,id,STRING"

(***************************************************************************)
(* C10.  A table declared by a header keeps the layer, the id, the key and *)
(* the seeded columns of its fragment whatever layer a row infers for the  *)
(* same name; processing a row only appends columns, sources and mappings  *)
(* and changes the layer, id or primary keys of no existing table.         *)
(***************************************************************************)
\* the first word of the layer's label, in lower case
LayerPrefix(layer) == IF layer = CDP THEN "cdp" ELSE IF layer = FDP THEN "fdp" ELSE "odp"

\* the fragments of a name; the last one is the one the table is set from
FragmentsNamed(name) == { k \in 1..Len(explicitTables) : explicitTables[k].name = name }

C10_FragmentKept ==
    pc \in {"rows", "done"} =>
        \A k \in 1..Len(CurrentTables) :
          LET t  == CurrentTables[k]
              fs == FragmentsNamed(t.targetName)
              f  == explicitTables[CHOOSE x \in fs : \A y \in fs : y <= x]
          IN  fs # {} =>
                /\ t.layer = f.layer
                /\ t.id = LayerPrefix(f.layer) \o "-" \o f.name
                /\ t.primaryKeys = <<"id">>
                /\ IsPrefix(<<"id", "created_at", "updated_at">> \o f.fields, t.columns)

C10_RowOnlyAppends ==
    pc = "rows" =>
        /\ Len(tables') >= Len(tables)
        /\ \A k \in 1..Len(tables) :
             /\ tables'[k].id = tables[k].id
             /\ tables'[k].layer = tables[k].layer
             /\ tables'[k].targetName = tables[k].targetName
             /\ tables'[k].primaryKeys = tables[k].primaryKeys
             /\ IsPrefix(tables[k].columns, tables'[k].columns)
             /\ Len(tables'[k].sources) >= Len(tables[k].sources)
             /\ \A j \in 1..Len(tables[k].sources) :
                  /\ tables'[k].sources[j].name = tables[k].sources[j].name
                  /\ IsPrefix(tables[k].sources[j].mappings, tables'[k].sources[j].mappings)

\* C10: the fragment's identity is kept in every state, and every step of the row
\* loop only appends
C10_FragmentWinsIdentity == []C10_FragmentKept /\ [][C10_RowOnlyAppends]_vars

\* a row named a declared table and inferred another layer for it
C10_Witness ==
    /\ pc = "done"
    /\ \E i \in 1..Len(rows) : \E k \in 1..Len(explicitTables) : \E x \in 1..Len(ResultTables) :
         /\ rows[i].targetTable = explicitTables[k].name
         /\ rows[i].targetLayer # explicitTables[k].layer
         /\ ResultTables[x].targetName = explicitTables[k].name
         /\ ResultTables[x].layer = explicitTables[k].layer
         /\ Len(ResultTables[x].sources) > 0

(***************************************************************************)
(* C12: the lineage index.                                                 *)
(***************************************************************************)
\* seq without the later occurrences of a value
RECURSIVE FirstOccurrences(_)
FirstOccurrences(seq) ==
    IF seq = <<>> THEN <<>>
    ELSE LET front == FirstOccurrences(SubSeq(seq, 1, Len(seq) - 1))
             last  == seq[Len(seq)]
         IN  IF Has(front, last) THEN front ELSE Append(front, last)

\* the source tables of the rows rs[1..n] that map into the table name, in row order
RECURSIVE SourceTablesInto(_, _, _)
SourceTablesInto(rs, n, name) ==
    IF n = 0 THEN <<>>
    ELSE IF rs[n].targetTable = name
         THEN Append(SourceTablesInto(rs, n - 1, name), rs[n].sourceTable)
         ELSE SourceTablesInto(rs, n - 1, name)

\* the order in which the Source References of the table name were created
CreationOrder(name) == FirstOccurrences(SourceTablesInto(rows, Len(rows), name))

\* the target names of a list of tables
TableNames(ts) == { ts[k].targetName : k \in 1..Len(ts) }

\* C12: the keys of the lineage index are the names of the output tables, one
\* entry each, and the value of a table is the list of its Source Reference
\* names in the order of their creation, no name twice
C12_LineageProjection ==
    pc = "done" =>
        LET lineage == result[1].lineage
        IN  /\ { lineage[k].key : k \in 1..Len(lineage) } = TableNames(ResultTables)
            /\ \A j, k \in 1..Len(lineage) : lineage[j].key = lineage[k].key => j = k
            /\ \A k \in 1..Len(ResultTables) :
                 \E j \in 1..Len(lineage) :
                    /\ lineage[j].key = ResultTables[k].targetName
                    /\ lineage[j].value = CreationOrder(ResultTables[k].targetName)
                    /\ lineage[j].value =
                         [x \in 1..Len(ResultTables[k].sources) |->
                             ResultTables[k].sources[x].name]
                    /\ NoDuplicates(lineage[j].value)

\* a table with two Source References in the order of its two rows, and one without
C12_Witness ==
    /\ pc = "done"
    /\ Len(rows) = 2
    /\ \E j, k \in 1..Len(result[1].lineage) :
         /\ Len(result[1].lineage[j].value) = 2
         /\ result[1].lineage[k].value = <<>>

(***************************************************************************)
(* C13: the summary.                                                       *)
(***************************************************************************)
\* the number of tables of ts[1..n] in the layer
RECURSIVE TablesInLayer(_, _, _)
TablesInLayer(ts, n, layer) ==
    IF n = 0 THEN 0
    ELSE TablesInLayer(ts, n - 1, layer) + (IF ts[n].layer = layer THEN 1 ELSE 0)

\* the number of mappings in the Source References srcs[1..n]
RECURSIVE MappingsIn(_, _)
MappingsIn(srcs, n) ==
    IF n = 0 THEN 0 ELSE MappingsIn(srcs, n - 1) + Len(srcs[n].mappings)

\* the number of mappings the tables ts[1..n] hold
RECURSIVE MappingsKept(_, _)
MappingsKept(ts, n) ==
    IF n = 0 THEN 0
    ELSE MappingsKept(ts, n - 1) + MappingsIn(ts[n].sources, Len(ts[n].sources))

\* C13: the three layer counts add up to the number of output tables, each is
\* the number of output tables of its layer, and totalFields is the number of
\* Mapping Rows the table builder went through, dropped duplicates included
C13_SummaryConsistent ==
    pc = "done" =>
        LET summary == result[1].summary
            n       == Len(ResultTables)
        IN  /\ summary.odpTables + summary.fdpTables + summary.cdpTables = n
            /\ summary.odpTables = TablesInLayer(ResultTables, n, ODP)
            /\ summary.fdpTables = TablesInLayer(ResultTables, n, FDP)
            /\ summary.cdpTables = TablesInLayer(ResultTables, n, CDP)
            /\ summary.totalFields = Len(rows)
            /\ summary.totalFields = rowCursor - 1

\* a run with a dropped duplicate: more rows counted than mappings kept, and
\* tables in two layers
C13_Witness ==
    /\ pc = "done"
    /\ result[1].summary.totalFields > MappingsKept(ResultTables, Len(ResultTables))
    /\ result[1].summary.odpTables > 0
    /\ result[1].summary.fdpTables > 0

(***************************************************************************)
(* C14: CSV mode, line by line.                                            *)
(***************************************************************************)
\* the line parseCSV stands at, trimmed
C14_Line == trim(lines[cursor])

\* its comma-separated values, trimmed
C14_Values == [k \in 1..Len(split(C14_Line, ",")) |-> trim(split(C14_Line, ",")[k])]

\* a line that is to yield a row
C14_DataLine ==
    /\ C14_Line # ""
    /\ At(C14_Line, 1) # "#"
    /\ ~IsPrefix("source_table", toLowerCase(C14_Line))
    /\ Len(C14_Values) >= 4

\* the row it is to yield
C14_Row ==
    [sourceTable |-> C14_Values[1], sourceField |-> C14_Values[2],
     targetTable |-> C14_Values[3], targetField |-> C14_Values[4],
     dataType |-> IF Len(C14_Values) < 5 \/ C14_Values[5] = "" THEN "STRING"
                  ELSE C14_Values[5],
     transformation |-> IF Len(C14_Values) >= 6 /\ C14_Values[6] # ""
                        THEN <<C14_Values[6]>> ELSE <<>>,
     sourceLayer |-> ClassOf(C14_Values[1]),
     targetLayer |-> ClassOf(C14_Values[3])]

C14_Step ==
    (pc = "csv" /\ cursor <= Len(lines)) =>
        /\ cursor' = cursor + 1
        /\ lines' = lines
        /\ error' = "" /\ pc' = "csv"
        /\ rows' = IF C14_DataLine THEN Append(rows, C14_Row) ELSE rows

\* C14: in CSV mode every step takes the next line; a line that is not empty,
\* no comment and no header and has at least 4 values appends its one row, the
\* values bound in order, the data type STRING by default, the layers by the
\* classifier; any other line leaves the rows alone and raises nothing
C14_CsvLines == [][C14_Step]_vars

\* a comment or a header, a line of three values and a row whose data type is
\* defaulted from an empty fifth value and whose transformation is the sixth
C14_Witness ==
    /\ pc = "csv" /\ cursor > Len(lines)
    /\ Len(lines) = 3
    /\ \E k \in 1..3 : At(lines[k], 1) = "#" \/ At(lines[k], 1) = "S"
    /\ \E k \in 1..3 : Len(split(lines[k], ",")) = 3
    /\ Len(rows) = 1
    /\ rows[1].dataType = "STRING"
    /\ rows[1].transformation = <<"UPPER(event_id)">>

(***************************************************************************)
(* C15: the direction of the data flow.                                    *)
(***************************************************************************)
\* the place of a layer in the flow ODP -> FDP -> CDP
LayerRank(layer) == IF layer = ODP THEN 1 ELSE IF layer = FDP THEN 2 ELSE 3

\* the layer of the output table of that name
LayerOfTable(name) ==
    LET hits == { k \in 1..Len(ResultTables) : ResultTables[k].targetName = name }
    IN  ResultTables[CHOOSE k \in hits : TRUE].layer

\* C15: in every result each Source Reference leads from a table of an earlier
\* layer to a table of a strictly later one; no table is its own source
C15_StrictLayerFlow ==
    pc = "done" =>
        \A k \in 1..Len(ResultTables) :
            \A j \in 1..Len(ResultTables[k].sources) :
                /\ ResultTables[k].sources[j].name # ResultTables[k].targetName
                /\ ResultTables[k].sources[j].name \in TableNames(ResultTables)
                /\ LayerRank(LayerOfTable(ResultTables[k].sources[j].name))
                     < LayerRank(ResultTables[k].layer)

(***************************************************************************)
(* C16: primary keys.                                                      *)
(***************************************************************************)
\* C16: every primary-key column of a returned table is one of its columns
C16_PrimaryKeysAreColumns ==
    pc = "done" =>
        \A k \in 1..Len(ResultTables) :
            /\ Len(ResultTables[k].primaryKeys) > 0
            /\ \A j \in 1..Len(ResultTables[k].primaryKeys) :
                 Has(ResultTables[k].columns, ResultTables[k].primaryKeys[j])

\* a declared table and a table made for a row, each with a column beyond the
\* seeded ones
C16_Witness ==
    /\ pc = "done"
    /\ \E k \in 1..Len(ResultTables) :
         /\ FragmentsNamed(ResultTables[k].targetName) # {}
         /\ Len(ResultTables[k].columns) > 3
    /\ \E k \in 1..Len(ResultTables) :
         /\ FragmentsNamed(ResultTables[k].targetName) = {}
         /\ Len(ResultTables[k].columns) > 3

(***************************************************************************)
(* C17: identifiers.                                                       *)
(***************************************************************************)
\* C17: the id of every returned table is the lower-case first word of its
\* layer's label, a hyphen and its name, and no two returned tables share an id
\* or a target name
C17_SyntheticIds ==
    pc = "done" =>
        /\ \A k \in 1..Len(ResultTables) :
             /\ ResultTables[k].layer \in ProductLayer
             /\ ResultTables[k].id =
                  LayerPrefix(ResultTables[k].layer) \o "-" \o ResultTables[k].targetName
        /\ \A j, k \in 1..Len(ResultTables) :
             (\/ ResultTables[j].id = ResultTables[k].id
              \/ ResultTables[j].targetName = ResultTables[k].targetName) => j = k

\* a name declared in two layers, and returned tables of two layers
C17_Witness ==
    /\ pc = "done"
    /\ \E j, k \in 1..Len(explicitTables) :
         /\ explicitTables[j].name = explicitTables[k].name
         /\ explicitTables[j].layer # explicitTables[k].layer
    /\ \E j, k \in 1..Len(ResultTables) : ResultTables[j].layer # ResultTables[k].layer

(***************************************************************************)
(* C19: one rule per line, by priority.                                    *)
(***************************************************************************)
\* the fragments are kept as they are and new ones, without fields, may follow
C19_OnlyNewFragments ==
    /\ IsPrefix(explicitTables, explicitTables')
    /\ \A k \in (Len(explicitTables) + 1)..Len(explicitTables') :
         explicitTables'[k].fields = <<>>

\* the fragments keep their number, names and layers
C19_OnlyNewFields ==
    /\ Len(explicitTables') = Len(explicitTables)
    /\ \A k \in 1..Len(explicitTables) :
         /\ explicitTables'[k].name = explicitTables[k].name
         /\ explicitTables'[k].layer = explicitTables[k].layer
         /\ IsPrefix(explicitTables[k].fields, explicitTables'[k].fields)

C19_Step ==
    (pc = "markdown" /\ cursor <= Len(lines)) =>
        LET line  == lines[cursor]
            dot   == dotNotationMatches(line)
            std   == standardMatch(line)
            arrow == mappingMatch(line)
        IN  /\ cursor' = cursor + 1
            /\ lines' = lines
            /\ pc' = "markdown"
            /\ IF dot # <<>>
               THEN /\ rows' = rows
                    /\ C19_OnlyNewFragments
                    /\ Len(activeTables') = Len(dot)
               ELSE IF std # <<>>
               THEN /\ rows' = rows
                    /\ C19_OnlyNewFragments
                    /\ Len(activeTables') = 1
               ELSE IF arrow # <<>>
               THEN /\ Len(rows') = Len(rows) + 1
                    /\ IsPrefix(rows, rows')
                    /\ activeTables' = activeTables
                    /\ explicitTables' = explicitTables
               ELSE /\ rows' = rows
                    /\ activeTables' = activeTables
                    /\ C19_OnlyNewFields

\* C19: every step of the transcript parser takes the next line and has the
\* effect of one rule only, the first that matches of dot-notation header,
\* standard header, arrow mapping, loose fields
C19_OneRulePerLine == [][C19_Step]_vars

\* a line with a dot-notation header and an arrow was taken as a header, and an
\* arrow line after it as a mapping
C19_Witness ==
    /\ pc = "markdown"
    /\ cursor = 3
    /\ dotNotationMatches(lines[1]) # <<>> /\ mappingMatch(lines[1]) # <<>>
    /\ dotNotationMatches(lines[2]) = <<>> /\ standardMatch(lines[2]) = <<>>
    /\ Len(activeTables) = 2
    /\ Len(rows) = 1

(***************************************************************************)
(* C20: arrow lines with table names.                                      *)
(***************************************************************************)
\* the two sides of a line 'left -> right'
C20_Sides(line) == split(line, " ")

\* the line has the form T1.f1 -> T2.f2, four identifiers
C20_Form(line) ==
    /\ Len(C20_Sides(line)) = 3
    /\ C20_Sides(line)[2] = "->"
    /\ \A s \in {1, 3} :
         /\ Len(split(C20_Sides(line)[s], ".")) = 2
         /\ AllWord(split(C20_Sides(line)[s], ".")[1])
         /\ AllWord(split(C20_Sides(line)[s], ".")[2])

\* C20: when the transcript parser has passed a line T1.f1 -> T2.f2, the last
\* Mapping Row is T1.f1 -> T2.f2
C20_QualifiedArrowRow ==
    (pc = "markdown" /\ cursor > 1 /\ C20_Form(lines[cursor - 1])) =>
        LET line == lines[cursor - 1]
            from == split(C20_Sides(line)[1], ".")
            to   == split(C20_Sides(line)[3], ".")
        IN  /\ Len(rows) > 0
            /\ rows[Len(rows)].sourceTable = from[1]
            /\ rows[Len(rows)].sourceField = from[2]
            /\ rows[Len(rows)].targetTable = to[1]
            /\ rows[Len(rows)].targetField = to[2]

(***************************************************************************)
(* C18: no state between the calls of analyze.                             *)
(***************************************************************************)
\* C18: a call that follows other calls and is given the text of the first
\* call, which ran on the fresh analyzer, ends as the first call ended: with
\* the same tables, lineage and summary, or with the same message
C18_SameAsFreshCall ==
    (Finished /\ calls > 1 /\ firstOutcome # <<>> /\ firstOutcome[1].text = content) =>
        /\ result = firstOutcome[1].result
        /\ error = firstOutcome[1].error

\* the third call returned; it has the text of the first, and the second
\* call parsed another text with success
C18_Witness ==
    /\ pc = "done"
    /\ calls = 3
    /\ firstOutcome # <<>>
    /\ firstOutcome[1].text = content
    /\ firstOutcome[1].result # <<>>
    /\ parsedText # content
    /\ Len(rows) > 0

(***************************************************************************)
(* C11: importing the document of the same text again.                     *)
(***************************************************************************)
\* the step is an import: only handleImport drops the document
C11_IsImport == parsedDoc # <<>> /\ parsedDoc' = <<>>

\* the columns of the application's tables, as sets, by table name
C11_Columns(ts) ==
    { <<ts[k].targetName, { ts[k].columns[j] : j \in 1..Len(ts[k].columns) }>> :
        k \in 1..Len(ts) }

C11_Step ==
    (C11_IsImport /\ Has(imports, parsedText)) =>
        /\ appTables' = appTables
        /\ C11_Columns(appTables') = C11_Columns(appTables)

\* C11: importing the document parsed from a text whose document was imported
\* before adds no table and changes no table, so every table has the columns
\* it had after the first import
C11_IdempotentImport == [][C11_Step]_vars

\* the same text was parsed and imported twice and tables came of it
C11_Witness ==
    /\ Len(imports) = 2
    /\ imports[1] = imports[2]
    /\ Len(appTables) > 1

(***************************************************************************)
(* C21: loose field distribution over the valid tokens.                    *)
(***************************************************************************)
\* the valid tokens among tokens[1..n], in order
RECURSIVE C21_ValidTokens(_, _)
C21_ValidTokens(tokens, n) ==
    IF n = 0 THEN <<>>
    ELSE IF IsValidToken(tokens[n])
         THEN Append(C21_ValidTokens(tokens, n - 1), tokens[n])
         ELSE C21_ValidTokens(tokens, n - 1)

\* a field list with one more token, unless it is there already
C21_WithToken(fields, token) == IF Has(fields, token) THEN fields ELSE Append(fields, token)

\* valid token i becomes a field of active table i, for the tables i..
RECURSIVE C21_Positional(_, _, _, _)
C21_Positional(frags, active, valid, i) ==
    IF i > Len(active) THEN frags
    ELSE C21_Positional([frags EXCEPT ![active[i]].fields = C21_WithToken(@, valid[i])],
                        active, valid, i + 1)

\* every valid token from the i-th on is appended to the field list
RECURSIVE C21_AppendAll(_, _, _)
C21_AppendAll(fields, valid, i) ==
    IF i > Len(valid) THEN fields
    ELSE C21_AppendAll(C21_WithToken(fields, valid[i]), valid, i + 1)

\* the fragments after a loose field line, by the valid tokens of the line
C21_Distributed(frags, active, line) ==
    LET valid == C21_ValidTokens(LineTokens(line), Len(LineTokens(line)))
    IN  IF Len(active) >= 2 /\ Len(valid) >= Len(active)
        THEN C21_Positional(frags, active, valid, 1)
        ELSE [frags EXCEPT ![active[Len(active)]].fields = C21_AppendAll(@, valid, 1)]

C21_Step ==
    (/\ pc = "markdown" /\ cursor <= Len(lines)
     /\ NoRuleMatches(lines[cursor])
     /\ Len(activeTables) > 0)
    => explicitTables' = C21_Distributed(explicitTables, activeTables, lines[cursor])

\* C21: a loose field line counts and places its valid tokens only: with two
\* or more active tables and as many valid tokens, valid token i goes to
\* active table i, otherwise all valid tokens go to the last active table; a
\* token the table has already is skipped
C21_ValidTokensPlaced == [][C21_Step]_vars

(***************************************************************************)
(* C22: a header line replaces the active tables.                          *)
(***************************************************************************)
\* the position of the fragment of a name and a layer among frags, 0 if none
C22_FragmentAt(frags, name, layer) ==
    LET hits == { k \in 1..Len(frags) : frags[k].name = name /\ frags[k].layer = layer }
    IN  IF hits = {} THEN 0 ELSE CHOOSE k \in hits : TRUE

C22_Step ==
    (pc = "markdown" /\ cursor <= Len(lines)) =>
        LET dot == dotNotationMatches(lines[cursor])
            std == standardMatch(lines[cursor])
        IN  IF dot # <<>>
            THEN /\ Len(activeTables') = Len(dot)
                 /\ \A k \in 1..Len(dot) :
                      /\ activeTables'[k] # 0
                      /\ activeTables'[k] =
                           C22_FragmentAt(explicitTables', dot[k].tableName,
                                          TokenLayer(dot[k].layerStr))
            ELSE std # <<>> =>
                 /\ Len(activeTables') = 1
                 /\ activeTables'[1] # 0
                 /\ activeTables'[1] =
                      C22_FragmentAt(explicitTables', std[1].tableName,
                                     TokenLayer(std[1].layerStr))

\* C22: after a dot-notation line the active tables are the fragments the
\* line matched, in match order, and after a standard header the one declared
\* fragment; nothing active before stays active unless the line names it
C22_HeaderReplaces == [][C22_Step]_vars

\* two tables were active, a standard header made one other table active
C22_Witness ==
    /\ pc = "markdown"
    /\ cursor = 3
    /\ Len(dotNotationMatches(lines[1])) = 2
    /\ standardMatch(lines[2]) # <<>> /\ dotNotationMatches(lines[2]) = <<>>
    /\ activeTables = <<3>>

(***************************************************************************)
(* C23: the arrow rule.                                                    *)
(***************************************************************************)
\* the line at the cursor is one the arrow rule takes
C23_ArrowLine ==
    /\ pc = "markdown" /\ cursor <= Len(lines)
    /\ dotNotationMatches(lines[cursor]) = <<>>
    /\ standardMatch(lines[cursor]) = <<>>
    /\ mappingMatch(lines[cursor]) # <<>>

C23_Step ==
    C23_ArrowLine =>
        LET m   == mappingMatch(lines[cursor])[1]
            row == rows'[Len(rows')]
        IN  /\ Len(rows') = Len(rows) + 1
            /\ IsPrefix(rows, rows')
            /\ activeTables' = activeTables
            /\ explicitTables' = explicitTables
            /\ (m.p2 = "" /\ Len(activeTables) > 0) =>
                 row.sourceTable = explicitTables[activeTables[1]].name
            /\ (m.p4 = "" /\ Len(activeTables) > 0) =>
                 row.targetTable = explicitTables[activeTables[Len(activeTables)]].name

\* C23: an arrow line adds one Mapping Row and leaves the active tables and
\* the fragments as they are; a side without a table takes the first active
\* table as source and the last active table as target
C23_ArrowFrame == [][C23_Step]_vars

\* a bare arrow under two active tables gave a row from the first to the last
C23_Witness ==
    /\ pc = "markdown"
    /\ cursor = 3
    /\ Len(activeTables) = 2
    /\ mappingMatch(lines[2]) # <<>>
    /\ mappingMatch(lines[2])[1].p2 = "" /\ mappingMatch(lines[2])[1].p4 = ""
    /\ Len(rows) = 1
    /\ rows[1].sourceTable = explicitTables[activeTables[1]].name
    /\ rows[1].targetTable = explicitTables[activeTables[2]].name
    /\ rows[1].sourceTable # rows[1].targetTable

(***************************************************************************)
(* C24: fragments are keyed by name and layer.                             *)
(***************************************************************************)
\* the layer a layer token stands for, in any case
C24_LayerOfToken(token) ==
    LET t == toLowerCase(token)
    IN  IF t \in {"odp", "raw"} THEN ODP
        ELSE IF t \in {"fdp", "foundation"} THEN FDP
        ELSE CDP

C24_UniqueKeys ==
    \A j, k \in 1..Len(explicitTables) :
        (/\ explicitTables[j].name = explicitTables[k].name
         /\ explicitTables[j].layer = explicitTables[k].layer) => j = k

\* what one declaration of a header line did: an existing fragment is active
\* again as it was, a missing one is new and empty
C24_Declared(name, layer, at) ==
    LET was == C22_FragmentAt(explicitTables, name, layer)
    IN  /\ at \in 1..Len(explicitTables')
        /\ explicitTables'[at].name = name
        /\ explicitTables'[at].layer = layer
        /\ IF was # 0
           THEN at = was /\ explicitTables'[at] = explicitTables[was]
           ELSE at > Len(explicitTables) /\ explicitTables'[at].fields = <<>>

C24_Step ==
    (pc = "markdown" /\ cursor <= Len(lines)) =>
        LET dot == dotNotationMatches(lines[cursor])
            std == standardMatch(lines[cursor])
        IN  IF dot # <<>>
            THEN /\ IsPrefix(explicitTables, explicitTables')
                 /\ \A k \in 1..Len(dot) :
                      C24_Declared(dot[k].tableName, C24_LayerOfToken(dot[k].layerStr),
                                   activeTables'[k])
            ELSE std # <<>> =>
                 /\ IsPrefix(explicitTables, explicitTables')
                 /\ C24_Declared(std[1].tableName, C24_LayerOfToken(std[1].layerStr),
                                 activeTables'[1])

\* C24: no two fragments share name and layer at any time; a header that
\* names an existing pair makes that fragment active with the fields it has,
\* and RAW, FOUNDATION and CONSUMPTION stand for the three layers in any case
C24_KeyedByNameAndLayer == []C24_UniqueKeys /\ [][C24_Step]_vars

\* a fragment with a field was declared again, by another token of its layer
C24_Witness ==
    /\ pc = "markdown"
    /\ cursor = 4
    /\ Len(explicitTables) = 1
    /\ explicitTables[1].fields # <<>>
    /\ activeTables = <<1>>
    /\ standardMatch(lines[3]) # <<>>
    /\ toUpperCase(standardMatch(lines[3])[1].layerStr) = "RAW"

(***************************************************************************)
(* C25: lines no rule takes.                                               *)
(***************************************************************************)
\* the line at the cursor matches no header and no arrow, and either no
\* table is active or the line holds no valid token
C25_Unmatched ==
    /\ pc = "markdown" /\ cursor <= Len(lines)
    /\ dotNotationMatches(lines[cursor]) = <<>>
    /\ standardMatch(lines[cursor]) = <<>>
    /\ mappingMatch(lines[cursor]) = <<>>
    /\ \/ Len(activeTables) = 0
       \/ C21_ValidTokens(LineTokens(lines[cursor]), Len(LineTokens(lines[cursor]))) = <<>>

C25_Step ==
    C25_Unmatched =>
        /\ activeTables' = activeTables
        /\ explicitTables' = explicitTables
        /\ rows' = rows
        /\ error' = "" /\ pc' = "markdown"
        /\ cursor' = cursor + 1

\* C25: a line that matches no rule, loose tokens without an active table
\* among them, raises nothing and leaves the active tables, the fragments and
\* the rows as they were
C25_UnmatchedIgnored == [][C25_Step]_vars

\* loose tokens were read with no table active, and a line without any token
\* under an active table; the one fragment has no field
C25_Witness ==
    /\ pc = "markdown"
    /\ cursor = 4
    /\ NoRuleMatches(lines[1])
    /\ C21_ValidTokens(LineTokens(lines[1]), Len(LineTokens(lines[1]))) # <<>>
    /\ standardMatch(lines[2]) # <<>>
    /\ NoRuleMatches(lines[3])
    /\ C21_ValidTokens(LineTokens(lines[3]), Len(LineTokens(lines[3]))) = <<>>
    /\ Len(explicitTables) = 1
    /\ explicitTables[1].fields = <<>>
    /\ rows = <<>>

(***************************************************************************)
(* C26: the tables of the rows exist.                                      *)
(***************************************************************************)
\* the tables built so far hold a table of the name with the column
C26_TableWithColumn(name, column) ==
    \E k \in 1..Len(CurrentTables) :
        /\ CurrentTables[k].targetName = name
        /\ Has(CurrentTables[k].columns, column)

\* C26: for every row the builder has processed, the target table holds the
\* target field and the source table the source field; in the result every
\* Source Reference and every name of a lineage list names a table of the result
C26_RowTablesExist ==
    /\ pc \in {"rows", "done"} =>
         \A i \in ProcessedRows :
            /\ C26_TableWithColumn(rows[i].targetTable, rows[i].targetField)
            /\ C26_TableWithColumn(rows[i].sourceTable, rows[i].sourceField)
    /\ pc = "done" =>
         /\ \A k \in 1..Len(ResultTables) : \A j \in 1..Len(ResultTables[k].sources) :
               ResultTables[k].sources[j].name \in TableNames(ResultTables)
         /\ \A k \in 1..Len(result[1].lineage) :
               \A j \in 1..Len(result[1].lineage[k].value) :
                  result[1].lineage[k].value[j] \in TableNames(ResultTables)

\* two rows were processed; a table no header declared is in the result as a
\* source only, with the source field among its columns
C26_Witness ==
    /\ pc = "done"
    /\ Len(rows) >= 2
    /\ \E k \in 1..Len(ResultTables) :
         /\ FragmentsNamed(ResultTables[k].targetName) = {}
         /\ ResultTables[k].sources = <<>>
         /\ \E i \in 1..Len(rows) :
              /\ rows[i].sourceTable = ResultTables[k].targetName
              /\ rows[i].sourceField # "id"
              /\ Has(ResultTables[k].columns, rows[i].sourceField)

(***************************************************************************)
(* C27: no declared table is lost by the builder.                          *)
(***************************************************************************)
\* the result holds a table with the fragment's name and layer and all of its fields
C27_Kept(fragment) ==
    \E k \in 1..Len(ResultTables) :
        /\ ResultTables[k].targetName = fragment.name
        /\ ResultTables[k].layer = fragment.layer
        /\ \A f \in 1..Len(fragment.fields) : Has(ResultTables[k].columns, fragment.fields[f])

\* C27: when analyze has returned, every Table Fragment of the transcript
\* parser has a table of its name and its layer in the result, with all of the
\* fragment's fields among the columns, also when two fragments share a name
C27_NoFragmentLost ==
    pc = "done" => \A k \in 1..Len(explicitTables) : C27_Kept(explicitTables[k])

(***************************************************************************)
(* C28: the application's tables stay distinct by name.                    *)
(***************************************************************************)
\* no two of the tables have target names that are equal ignoring case
C28_DistinctNames(ts) ==
    \A i, j \in 1..Len(ts) :
        toUpperCase(ts[i].targetName) = toUpperCase(ts[j].targetName) => i = j

\* the stored tables are all still there, unchanged and in their places, and
\* every table behind them was unknown by id and by case-insensitive name
C28_Step ==
    appTables' # appTables =>
        /\ Len(appTables') > Len(appTables)
        /\ SubSeq(appTables', 1, Len(appTables)) = appTables
        /\ \A k \in (Len(appTables) + 1)..Len(appTables') :
              /\ \A i \in 1..Len(appTables) : appTables[i].id # appTables'[k].id
              /\ \A i \in 1..Len(appTables) :
                    toUpperCase(appTables[i].targetName) #
                        toUpperCase(appTables'[k].targetName)

\* C28: starting from tables without a name collision, after any sequence of
\* imports no two stored tables have names equal ignoring case; an import
\* leaves every stored table as it was, and adds a parsed table only if neither
\* its id nor its case-insensitive name was stored already
C28_ImportKeepsNamesDistinct ==
    /\ [](C28_DistinctNames(appTables))
    /\ [][C28_Step]_vars

\* the two parts about one import, taken alone
C28_ImportOnlyAddsUnknown == [][C28_Step]_vars

(***************************************************************************)
(* C29: a bare arrow without an active table.                              *)
(***************************************************************************)
\* line i is an arrow line 'f -> g' with no table on either side, and no
\* header was read before it, so that activeTables is empty when it is read
C29_BareUnframed(i) ==
    /\ \A j \in 1..i : /\ dotNotationMatches(lines[j]) = <<>>
                       /\ standardMatch(lines[j]) = <<>>
    /\ mappingMatch(lines[i]) # <<>>
    /\ mappingMatch(lines[i])[1].p2 = ""
    /\ mappingMatch(lines[i])[1].p4 = ""

\* the lines of that kind the transcript parser has read
C29_Read == { i \in 1..Len(lines) : i < cursor /\ C29_BareUnframed(i) }

\* the rows between the placeholder tables
C29_PlaceholderRows ==
    { k \in 1..Len(rows) : /\ rows[k].sourceTable = "Unknown_Source"
                           /\ rows[k].targetTable = "Unknown_Target" }

\* the result holds a table of the name in the origination layer
C29_OdpTable(name) ==
    \E k \in 1..Len(ResultTables) :
        ResultTables[k].targetName = name /\ ResultTables[k].layer = ODP

ExtractorInit ==
    /\ content = ""
    /\ pc = "idle"
    /\ called = {}
    /\ lines = <<>>
    /\ cursor = 1
    /\ activeTables = <<>>
    /\ explicitTables = <<>>
    /\ rows = <<>>
    /\ tables = <<>>
    /\ rowCursor = 1
    /\ result = <<>>
    /\ error = ""
    /\ mappingText = ""
    /\ parsedDoc = <<>>
    /\ errors = <<>>
    /\ appTables = <<>>
    /\ calls = 0
    /\ firstOutcome = <<>>
    /\ parsedText = ""
    /\ imports = <<>>
    /\ extractor \in { [NoExtraction EXCEPT !.pc = "start", !.text = t] : t \in OcrTexts }

\* lines 141-157: the text is cleaned and cut into its lines
ParseExtractedText ==
    /\ extractor.pc = "start"
    /\ extractor' = [extractor EXCEPT !.pc = "lines",
                                      !.lines = ExtractedLines(extractor.text)]
    /\ UNCHANGED <<content, pc, called, lines, cursor, activeTables, explicitTables, rows,
                   tables, rowCursor, result, error, session>>

\* lines 159-257: one turn of the loop over the lines
ParseExtractedLine ==
    /\ extractor.pc = "lines"
    /\ extractor.lineIndex < Len(extractor.lines)
    /\ extractor' = ExtractLine(extractor)
    /\ UNCHANGED <<content, pc, called, lines, cursor, activeTables, explicitTables, rows,
                   tables, rowCursor, result, error, session>>

\* line 260: the lists are returned
ParseExtractedReturn ==
    /\ extractor.pc = "lines"
    /\ extractor.lineIndex = Len(extractor.lines)
    /\ extractor' = [extractor EXCEPT !.pc = "returned"]
    /\ UNCHANGED <<content, pc, called, lines, cursor, activeTables, explicitTables, rows,
                   tables, rowCursor, result, error, session>>

ExtractorNext ==
    \/ ParseExtractedText
    \/ ParseExtractedLine
    \/ ParseExtractedReturn

ExtractorSpec == ExtractorInit /\ [][ExtractorNext]_vars

(***************************************************************************)
(* C30: a layer header, a table name and its field names, line by line.    *)
(***************************************************************************)
\* the lines of the text as the OCR gave them
C30_TextLines == split(extractor.text, "\n")

\* a line that holds one name and no layer word
C30_IsName(line) ==
    /\ AllWord(line)
    /\ At(line, 1) \in Letters
    /\ ~HasWord(line, OdpWords \cup FdpWords \cup CdpWords)

\* the text is the header ODP, then a table name, then one distinct field
\* name on every following line
C30_Layout ==
    /\ Len(C30_TextLines) >= 3
    /\ C30_TextLines[1] = "ODP"
    /\ \A k \in 2..Len(C30_TextLines) : C30_IsName(C30_TextLines[k])
    /\ \A j, k \in 2..Len(C30_TextLines) :
          C30_TextLines[j] = C30_TextLines[k] => j = k

\* C30: for a text made of a layer header line, a line with a table name and
\* lines with one field name each, parseExtractedText returns a table of that
\* name in that layer whose fields are the following names in order
C30_LayerTableFields ==
    (extractor.pc = "returned" /\ C30_Layout) =>
        \E k \in 1..Len(extractor.odpTables) :
            /\ extractor.odpTables[k].name = toUpperCase(C30_TextLines[2])
            /\ extractor.odpTables[k].layer = "ODP"
            /\ extractor.odpTables[k].fields =
                  [f \in 1..(Len(C30_TextLines) - 2) |-> toUpperCase(C30_TextLines[f + 2])]

====
